---- MODULE Spec2Model ----
(***************************************************************************)
(* Slit-edge tracing of pypeit/new_trace.py.                               *)
(*                                                                         *)
(* Several specifications share this module:                               *)
(*   Spec        the EdgeTraceSet object and its operations                *)
(*   SpecDetect  the pure function detect_slit_edges                       *)
(*   SpecLink    the pure function identify_traces                         *)
(*   SpecOrphan  the pure function handle_orphan_edge                      *)
(*   SpecMoment  the pure function recenter_moment                         *)
(*   SpecFollow  the pure function follow_trace_moment                     *)
(*   SpecRefine  the loop of moment_refine, one iteration at a time        *)
(*   SpecConstruct  the construction of the object, EdgeTraceSet.__init__  *)
(*   SpecPeak    the rows that peak_trace collapses                        *)
(*   SpecSobel   the Sobel images of the object and their preparation      *)
(* Rows and columns are numbered from 0 as in the source.                  *)
(***************************************************************************)
EXTENDS Integers, Sequences, FiniteSets, TLC

VARIABLES
    \* ---- the EdgeTraceSet object (Spec)
    traceid,        \* the ID of each trace, or None before the first tracing
    spat_img,       \* [row -> sequence over the traces] of integer columns
    spat_cen,       \* the same shape: centroids, in units of half a pixel
    spat_err,       \* the same shape: centroid errors
    spat_msk,       \* the same shape: mask words, each the set of its bits on
    spat_fit,       \* the same shape: fitted positions in half pixels, or None
    log,            \* the names of the methods applied, or None
    file,           \* what save() last wrote to file_path, or None
    call,           \* the last method called, its argument and how it ended
    \* ---- detect_slit_edges (SpecDetect)
    dpc,            \* "none" | "input" | "returned"
    flux,           \* input: [row -> [col -> Int]]
    mask,           \* input: None or [row -> [col -> Int]]
    det_par,        \* input: [median_iterations, min_sqm, sobel_mode, sigdetect]
    tedges,         \* the edges assigned according to S/N, before cleaning
    sobel_sig,      \* output: [row -> [col -> [num, den]]], the ratio num/den
    edge_out,       \* output: the edge image
    \* ---- identify_traces (SpecLink)
    lpc,            \* "none" | "input" | "returned" | "ValueError"
    edge_img,       \* input: [row -> [col -> {-1,0,1}]]
    link_par,       \* input: [max_spatial_separation, spectral_memory, minimum_length]
    xy,             \* the coordinates x, y of the edge pixels, in array order
    linking,        \* the loop's iterations: locals of each processed row
    link_trace,     \* the array trace (an ID per edge pixel) when the loop ends
    trace_id_img,   \* output: [row -> [col -> Int]]
    \* ---- handle_orphan_edge (SpecOrphan)
    opc,            \* "none" | "input" | "ok" | "ValueError"
    orphan_img,     \* input: the trace-ID image, [row -> [col -> Int]]
    orphan_sig,     \* input: the significance image, [row -> [col -> Int]]
    orphan_msk,     \* input: None or [row -> [col -> BOOLEAN]]
    flux_valid,     \* input: BOOLEAN
    orphan_out,     \* output: the image returned, or None
    \* ---- recenter_moment (SpecMoment)
    mpc,            \* "none" | "input" | "ok" | "ValueError"
    m_in,           \* input: [flux, xcen, ivar, mask, ycen, width]
    m_out,          \* output: [status, mu, mue, bad], or None
    \* ---- follow_trace_moment (SpecFollow)
    fpc,            \* "none" | "input" | "ok" | "ValueError"
    f_in,           \* input: the arguments of the call
    f_out,          \* output: [status, xc, xe, xm], or None
    \* ---- the loop of moment_refine (SpecRefine)
    rpc,            \* "none" | "left" | "right" | "returned" | "raised"
    r_in,           \* input: [st, f, minimum_length, clip]
    r_w,            \* the object, the work arrays and the book-keeping
    r_iters,        \* the iterations made: the side and the traces of each
    r_out,          \* the trace data of the object on return, or None
    \* ---- EdgeTraceSet.__init__ (SpecConstruct)
    cpc,            \* "none" | "input" | "returned"
    c_in,           \* input: [trace_img, load, hdu], hdu the master file or None
    c_out,          \* output: [status, st, log, file]
    \* ---- the collapse of peak_trace (SpecPeak)
    ppc,            \* "none" | "input" | "collapsed"
    p_in,           \* input: [smash_range, nspec]
    p_out,          \* output: [start, end] of flux_extract[start:end,:]
    \* ---- the Sobel images of the object (SpecSobel, with sobel_sig)
    sobel_sig_left, \* the image prepared for the left side, or None
    sobel_sig_righ, \* the image prepared for the right side, or None
    sobel_hdu,      \* the extension SOBELSIG of the master file, or None
    computed,       \* the computations of each side since sobel_sig was set
    sobel_n         \* the number of calls made on the object

setVars == <<traceid, spat_img, spat_cen, spat_err, spat_msk, spat_fit, log, file, call>>

detVars == <<dpc, flux, mask, det_par, tedges, sobel_sig, edge_out>>

linkVars == <<lpc, edge_img, link_par, xy, linking, link_trace, trace_id_img>>

orphVars == <<opc, orphan_img, orphan_sig, orphan_msk, flux_valid, orphan_out>>

momVars == <<mpc, m_in, m_out>>

folVars == <<fpc, f_in, f_out>>

refVars == <<rpc, r_in, r_w, r_iters, r_out>>

\* The variables of the functions added to the first three groups.
ctorVars == <<cpc, c_in, c_out>>

peakVars == <<ppc, p_in, p_out>>

cacheVars == <<sobel_sig_left, sobel_sig_righ, sobel_hdu, computed, sobel_n>>

moreVars == <<ctorVars, peakVars, cacheVars>>

fnVars == <<orphVars, momVars, folVars, refVars, moreVars>>

vars == <<setVars, detVars, linkVars, fnVars>>

\* None: the empty tuple, which differs from every array of the object, every
\* image and every record of the model.  A trace-ID array without any trace is
\* the empty tuple too; whether a tracing has run is read from the log.
None == << >>

(***************************************************************************)
(* Bounds of the model.                                                    *)
(***************************************************************************)
NSpec == 2          \* spectral rows of the trace image (nspec)
NSpat == 3          \* spatial columns of the trace image (nspat)
MaxSide == 2        \* the most traces of one side in a trace-ID image
MaxEdgePix == 2     \* the most edge pixels in a trace-ID image
MaxCalls == 3       \* the most calls made on one object
MeasuredErr == 1    \* the error of a centroid that could be measured
NDetRows == 2       \* rows of the flux images
NDetCols == 12      \* columns of the flux images
NRows == 6          \* spectral rows of the edge images
NCols == 3          \* spatial columns of the edge images
NFree == 3          \* leading rows of an edge image that are filled freely
NORows == 2         \* rows of the trace-ID images given to handle_orphan_edge
NOCols == 3         \* columns of those images
MaxOrphan == 2      \* the most traces of one side in those images
NMRows == 2         \* rows of the images given to recenter_moment
NMCols == 3         \* columns of those images and of follow_trace_moment's
NFRows == 3         \* rows of the images given to follow_trace_moment
MaxIters == 3       \* the most iterations of the loops of one moment_refine
MaxWidth == 2       \* the widest window of recenter_moment, in pixels
SmashDen == 4       \* a fraction of smash_range is a number of quarters
MaxSmashSpec == 8   \* the most rows of the image given to peak_trace
NSobelRows == 3     \* rows of the Sobel images of the object
MaxSobelCalls == 4  \* the most calls made on the object for its Sobel images

\* The flux values, the mask values and the masked columns tried.
FluxLevels == {0, -400, 1600}
MaskValues == {0, 1, 3}
MaskCols == {3, 8}
SobelLevels == {-5, 5}

\* Constants of the source.
MatchTolerance == 3     \* match_tolerance of moment_refine
FilterSize == 10        \* the size of the maximum and minimum filters

Rows == 0 .. (NRows - 1)
Cols == 0 .. (NCols - 1)

Abs(v) == IF v < 0 THEN -v ELSE v

\* The elements of a finite set of integers in increasing order.
RECURSIVE SortedSeq(_)
SortedSeq(S) ==
    IF S = {} THEN << >>
    ELSE LET m == CHOOSE v \in S : \A w \in S : v <= w
         IN  <<m>> \o SortedSeq(S \ {m})

(***************************************************************************)
(* The EdgeTraceSet object.  A 2D array of shape (nspec, n) is a function  *)
(* from the rows 0 .. nspec-1 to sequences of length n; a boolean index    *)
(* array is the set of the positions where it is True.  Centroids and fits *)
(* are counted in half pixels, so that np.round has ties to break.         *)
(***************************************************************************)
SpecRows == 0 .. (NSpec - 1)
SpatCols == 0 .. (NSpat - 1)

\* np.round of a position h counted in half pixels: halves go to the even
\* integer.
Round(h) ==
    LET q == h \div 2
    IN  IF h % 2 = 0 THEN q ELSE IF q % 2 = 0 THEN q ELSE q + 1

\* np.round(arr).astype(int)
RoundArr(arr) == [r \in DOMAIN arr |-> [i \in 1 .. Len(arr[r]) |-> Round(arr[r][i])]]

\* np.full((nspec, n), v)
Full(n, v) == [r \in SpecRows |-> [i \in 1 .. n |-> v]]

\* A variant of Take that leaves the array as it is.
TakeAll(arr, idx) == arr

\* arr[:,idx] for a sequence idx of positions
Take(arr, idx) == [r \in DOMAIN arr |-> [k \in 1 .. Len(idx) |-> arr[r][idx[k]]]]

\* traceid[idx] for a sequence idx of positions
TakeIds(ids, idx) == [k \in 1 .. Len(idx) |-> ids[idx[k]]]

\* bitmask.turn_on(msk[:,sel], flag)
TurnOn(msk, sel, flag) ==
    [r \in DOMAIN msk |-> [i \in 1 .. Len(msk[r]) |->
        IF i \in sel THEN msk[r][i] \cup {flag} ELSE msk[r][i]]]

\* arr[:,sel] = new[:,sel]
PutCols(arr, new, sel) ==
    [r \in DOMAIN arr |-> [i \in 1 .. Len(arr[r]) |->
        IF i \in sel THEN new[r][i] ELSE arr[r][i]]]

\* The trace data of the object as one record.
Self ==
    [traceid |-> traceid, spat_img |-> spat_img, spat_cen |-> spat_cen,
     spat_err |-> spat_err, spat_msk |-> spat_msk, spat_fit |-> spat_fit]

\* The assignment of the trace data st to the attributes of the object.
Assign(st) ==
    /\ traceid' = st.traceid
    /\ spat_img' = st.spat_img
    /\ spat_cen' = st.spat_cen
    /\ spat_err' = st.spat_err
    /\ spat_msk' = st.spat_msk
    /\ spat_fit' = st.spat_fit

\* The record kept of a call: the method, its argument, how it ended, whether
\* it directly follows a completed call of the same method, and the number of
\* calls made on the object so far.
Called(name, arg, outcome) ==
    [name |-> name, arg |-> arg, outcome |-> outcome,
     again |-> (call.name = name /\ call.outcome = "ok"),
     n |-> call.n + 1]

(***************************************************************************)
(* initial_trace                                                           *)
(***************************************************************************)

\* The number of edge pixels of a trace-ID image.
NEdgePix(img) == Cardinality({ <<r, c>> \in SpecRows \X SpatCols : img[r][c] # 0 })

\* The IDs of one sign (sgn = -1 or 1) in a trace-ID image, as positive numbers.
SideIds(img, sgn) ==
    { sgn * img[r][c] : r \in SpecRows, c \in SpatCols } \cap (1 .. MaxSide)

\* The trace-ID images that identify_traces and handle_orphan_edge hand to
\* initial_trace: the IDs of each side are 1 .. n without gaps, and the two
\* sides hold one trace each or the left side holds more than one.
TraceIdImgs ==
    { img \in [SpecRows -> [SpatCols -> (-MaxSide) .. MaxSide]] :
        /\ NEdgePix(img) <= MaxEdgePix
        /\ LET nl == Cardinality(SideIds(img, -1))
               nr == Cardinality(SideIds(img, 1))
           IN  /\ SideIds(img, -1) = 1 .. nl
               /\ SideIds(img, 1) = 1 .. nr
               /\ \/ nl = 1 /\ nr = 1
                  \/ nl > 1 /\ nr <= 1 }

\* self.traceid = np.unique(trace_id_img.compressed())
UniqueIds(img) == SortedSeq({ img[r][c] : r \in SpecRows, c \in SpatCols } \ {0})

\* The columns of row r where the image holds the ID id.
EdgeCols(img, id, r) == { c \in SpatCols : img[r][c] = id }

\* self.spat_img[row,i] = col: where a row holds the ID more than once the
\* last assignment, of the largest column, stays; other cells keep 0.
InitialImg(img, ids) ==
    [r \in SpecRows |-> [i \in 1 .. Len(ids) |->
        IF EdgeCols(img, ids[i], r) = {} THEN 0
        ELSE CHOOSE c \in EdgeCols(img, ids[i], r) :
                 \A d \in EdgeCols(img, ids[i], r) : d <= c]]

\* A variant of InitialMsk that leaves NOEDGE on in every cell.
InitialMskOn(img, ids) == [r \in SpecRows |-> [i \in 1 .. Len(ids) |-> {"NOEDGE"}]]

\* self.spat_msk: NOEDGE everywhere, turned off at the detected edges.
InitialMsk(img, ids) ==
    [r \in SpecRows |-> [i \in 1 .. Len(ids) |->
        IF EdgeCols(img, ids[i], r) = {} THEN {"NOEDGE"} ELSE {}]]

\* spat_img.astype(float), in half pixels
AsFloat(arr) == [r \in DOMAIN arr |-> [i \in 1 .. Len(arr[r]) |-> 2 * arr[r][i]]]

\* The trace data initial_trace builds from the trace-ID image.
InitialSet(img, ids) ==
    [traceid |-> ids,
     spat_img |-> InitialImg(img, ids),
     spat_cen |-> AsFloat(InitialImg(img, ids)),
     spat_err |-> Full(Len(ids), -1),
     spat_msk |-> InitialMsk(img, ids),
     spat_fit |-> None]

\* What save() writes of the trace data st and the log lg.
Saved(st, lg) ==
    [traceid |-> st.traceid, spat_cen |-> st.spat_cen, spat_err |-> st.spat_err,
     spat_msk |-> st.spat_msk, spat_fit |-> st.spat_fit, log |-> lg]

\* initial_trace(trace_img, save): the first method called on the object.
initial_trace ==
    /\ call.n < MaxCalls
    /\ log = None
    /\ UNCHANGED <<detVars, linkVars, fnVars>>
    /\ \E img \in TraceIdImgs, save \in BOOLEAN :
          /\ Assign(InitialSet(img, UniqueIds(img)))
          /\ log' = <<"initial_trace">>
          /\ file' = IF save
                     THEN Saved(InitialSet(img, UniqueIds(img)), <<"initial_trace">>)
                     ELSE file
          /\ call' = Called("initial_trace", [save |-> save, img |-> img], "ok")

(***************************************************************************)
(* remove_traces and resort_trace_ids                                      *)
(***************************************************************************)

\* A variant of Keep that keeps the positions selected.
KeepSelected(n, indx) == SortedSeq(indx)

\* keep = np.invert(indx), as the sequence of the positions kept
Keep(n, indx) == SortedSeq((1 .. n) \ indx)

\* The trace data with its columns taken at the positions idx.
TakeSet(st, idx) ==
    [traceid |-> TakeIds(st.traceid, idx),
     spat_img |-> Take(st.spat_img, idx),
     spat_cen |-> Take(st.spat_cen, idx),
     spat_err |-> Take(st.spat_err, idx),
     spat_msk |-> Take(st.spat_msk, idx),
     spat_fit |-> IF st.spat_fit = None THEN None ELSE Take(st.spat_fit, idx)]

\* The body of remove_traces before any re-sorting.
Removed(st, indx) == TakeSet(st, Keep(Len(st.traceid), indx))

RECURSIVE SumRows(_, _, _)
SumRows(arr, i, r) ==
    IF r >= NSpec THEN 0 ELSE arr[r][i] + SumRows(arr, i, r + 1)

\* np.mean(self.spat_cen, axis=0), times nspec
Mean(cen, n) == [i \in 1 .. n |-> SumRows(cen, i, 0)]

\* The permutations of 1 .. n, as sequences.
Perms(n) == { p \in [1 .. n -> 1 .. n] : \A i, j \in 1 .. n : p[i] = p[j] => i = j }

\* np.argsort(key): the sort is not a stable one, so the order in which equal
\* keys come back is left to the algorithm; any order of them is allowed for.
ArgSort(key, n) ==
    { p \in Perms(n) : \A k \in 1 .. (n - 1) : key[p[k]] <= key[p[k + 1]] }

\* A variant of ReorderNumbers that leaves the IDs as they are.
KeepNumbers(ids) == ids

\* "Reorder the trace numbers": -1, -2, ... for the negative IDs and 1, 2, ...
\* for the others, in the order they stand.
ReorderNumbers(ids) ==
    [k \in 1 .. Len(ids) |->
        IF ids[k] < 0
        THEN -1 - Cardinality({ j \in 1 .. (k - 1) : ids[j] < 0 })
        ELSE 1 + Cardinality({ j \in 1 .. (k - 1) : ~ (ids[j] < 0) })]

\* The trace data after resort_trace_ids when argsort returns srt.
Resorted(st, srt) ==
    [TakeSet(st, srt) EXCEPT !.traceid = ReorderNumbers(TakeIds(st.traceid, srt))]

\* The results resort_trace_ids may leave.
ResortedSets(st) ==
    { Resorted(st, srt) : srt \in ArgSort(Mean(st.spat_cen, Len(st.traceid)), Len(st.traceid)) }

\* remove_traces(indx, sortid)
remove_traces ==
    /\ call.n < MaxCalls
    /\ log # None
    /\ UNCHANGED <<detVars, linkVars, fnVars>>
    /\ \E indx \in SUBSET (1 .. Len(traceid)), sortid \in BOOLEAN :
          /\ \E st \in (IF sortid THEN ResortedSets(Removed(Self, indx))
                        ELSE {Removed(Self, indx)}) : Assign(st)
          /\ call' = Called("remove_traces", [indx |-> indx, sortid |-> sortid], "ok")
    /\ UNCHANGED <<log, file>>

\* resort_trace_ids()
resort_trace_ids ==
    /\ call.n < MaxCalls
    /\ log # None
    /\ UNCHANGED <<detVars, linkVars, fnVars>>
    /\ \E srt \in ArgSort(Mean(spat_cen, Len(traceid)), Len(traceid)) :
          /\ Assign(Resorted(Self, srt))
          /\ call' = Called("resort_trace_ids", srt, "ok")
    /\ UNCHANGED <<log, file>>

(***************************************************************************)
(* moment_refine and check_traces                                          *)
(***************************************************************************)

\* this_side = self.traceid < 0 if side == 'left' else self.traceid > 0
ThisSide(ids, side) ==
    { i \in 1 .. Len(ids) : IF side = "left" THEN ids[i] < 0 ELSE ids[i] > 0 }

\* The number of the traces of indx that are not masked in row r.
Crossing(msk, indx, r) == Cardinality({ i \in indx : msk[r][i] = {} })

\* most_common_trace_row(self.spat_msk[:,indx] > 0): the first of the rows that
\* cross the most unmasked traces; -1 stands for the IndexError raised when
\* every cell is masked.
most_common_trace_row(msk, indx) ==
    IF \A r \in SpecRows : Crossing(msk, indx, r) = 0 THEN -1
    ELSE CHOOSE r \in SpecRows :
            /\ \A q \in SpecRows : Crossing(msk, indx, q) <= Crossing(msk, indx, r)
            /\ \A q \in SpecRows : q < r => Crossing(msk, indx, q) < Crossing(msk, indx, r)

\* What follow_trace_moment can make of one trace started at column c: the
\* centroid moves half a pixel up or a pixel down along the whole trace, or the
\* recentring fails in every row and the centroid stays.
FollowOutcomes == {"half", "left", "lost"}

follow_trace_moment(c, o) ==
    [cen |-> [r \in SpecRows |->
                 IF o = "half" THEN 2 * c + 1
                 ELSE IF o = "left" /\ c > 0 THEN 2 * c - 2
                 ELSE 2 * c],
     err |-> [r \in SpecRows |-> IF o = "lost" THEN -1 ELSE MeasuredErr],
     msk |-> [r \in SpecRows |-> IF o = "lost" THEN {"MOMENTERROR"} ELSE {}]]

\* cen[:,indx], err[:,indx], msk[:,indx] = follow_trace_moment(...): the field
\* fld of the result put into the columns indx of arr.
PutFollowed(arr, fld, indx, img, start_row, f) ==
    [r \in DOMAIN arr |-> [i \in 1 .. Len(arr[r]) |->
        IF i \in indx THEN follow_trace_moment(img[start_row][i], f[i])[fld][r]
        ELSE arr[r][i]]]

\* The traces of indx that repeat an accepted trace of their side.
Repeat(ids, img, s_msk, col, msk, indx, compare, match_tolerance) ==
    { i \in indx : \E r \in SpecRows, j \in compare :
        /\ msk[r][i] = {}
        /\ s_msk[r][j] = {}
        /\ Abs(col[r][i] - img[r][j]) < match_tolerance }

\* The traces of indx with too few unmasked rows; minimum_length is a fraction
\* of nspec, and the fraction 0 clips nothing, as a call without it does.
Short(msk, indx, minimum_length) ==
    { i \in indx :
        Cardinality({ r \in SpecRows : msk[r][i] = {} }) < minimum_length * NSpec }

\* The traces of indx at or below mincol in the central row: mincol is None
\* for the left side and 0 for the right side.
HitMin(col, msk, indx, side) ==
    IF side = "left" THEN {}
    ELSE { i \in indx : col[NSpec \div 2][i] <= 0 /\ msk[NSpec \div 2][i] = {} }

\* The traces of indx at or above maxcol in the central row: maxcol is the last
\* column for the left side and None for the right side.
HitMax(col, msk, indx, side) ==
    IF side = "left"
    THEN { i \in indx : col[NSpec \div 2][i] >= NSpat - 1 /\ msk[NSpec \div 2][i] = {} }
    ELSE {}

\* The end of check_traces from the short traces on; msk is edited in place.
\* Where a trace hits the minimum or the maximum column the message printed
\* names hitmin or hitmax, which are not defined.  Past that point hit_min and
\* hit_max are empty.
CheckEnds(col, msk, indx, repeat, short, side) ==
    IF HitMin(col, TurnOn(msk, short, "TOOSHORT"), indx, side) # {}
    THEN [status |-> "NameError"]
    ELSE IF HitMax(col, TurnOn(msk, short, "TOOSHORT"), indx, side) # {}
    THEN [status |-> "NameError"]
    ELSE [status |-> "ok",
          msk |-> TurnOn(msk, short, "TOOSHORT"),
          bad |-> indx \cap (repeat \cup short),
          good |-> indx \ (repeat \cup short)]

CheckShort(col, msk, indx, repeat, minimum_length, side) ==
    CheckEnds(col, msk, indx, repeat, Short(msk, indx, minimum_length), side)

CheckRepeat(col, msk, indx, repeat, minimum_length, side) ==
    CheckShort(col, TurnOn(msk, repeat, "DUPLICATE"), indx, repeat, minimum_length, side)

\* check_traces(cen, err, msk, subset=indx, ...) on the object st
check_traces(st, cen, msk, indx, minimum_length, side) ==
    LET s == IF \A i \in indx : st.traceid[i] < 0 THEN -1 ELSE 1
        compare == { j \in 1 .. Len(st.traceid) : s * st.traceid[j] > 0 /\ j \notin indx }
    IN  CheckRepeat(RoundArr(cen), msk, indx,
                    Repeat(st.traceid, st.spat_img, st.spat_msk, RoundArr(cen), msk,
                           indx, compare, MatchTolerance),
                    minimum_length, side)

\* A variant of the book-keeping that takes only the good traces off the
\* traces still to refine.
CommitGood(w, cen, err, chk) ==
    [w EXCEPT !.cen = cen, !.err = err, !.msk = chk.msk,
              !.st.spat_cen = PutCols(w.st.spat_cen, cen, chk.good),
              !.st.spat_err = PutCols(w.st.spat_err, err, chk.good),
              !.st.spat_msk = PutCols(w.st.spat_msk, chk.msk, chk.good \cup chk.bad),
              !.untraced = w.untraced \ chk.good,
              !.rmtrace = w.rmtrace \cup chk.bad]

\* "Save the results and update the book-keeping"
Commit(w, cen, err, chk) ==
    [w EXCEPT !.cen = cen, !.err = err, !.msk = chk.msk,
              !.st.spat_cen = PutCols(w.st.spat_cen, cen, chk.good),
              !.st.spat_err = PutCols(w.st.spat_err, err, chk.good),
              !.st.spat_msk = PutCols(w.st.spat_msk, chk.msk, chk.good \cup chk.bad),
              !.untraced = w.untraced \ (chk.good \cup chk.bad),
              !.rmtrace = w.rmtrace \cup chk.bad]

Checked(w, cen, err, chk) ==
    IF chk.status # "ok" THEN [w EXCEPT !.status = chk.status]
    ELSE Commit(w, cen, err, chk)

Followed(w, side, indx, cen, err, msk, minimum_length) ==
    Checked(w, cen, err,
            check_traces(w.st, cen, msk, indx, minimum_length, side))

\* One iteration of "Loop continues until all traces are refined", started at
\* start_row.  w holds the object st, the arrays cen, err, msk, the
\* book-keeping untraced and rmtrace, and the status of the call.
Iteration(w, side, indx, start_row, f, minimum_length) ==
    IF start_row < 0 THEN [w EXCEPT !.status = "IndexError"]
    ELSE IF \E i \in indx : \/ w.st.spat_img[start_row][i] > NSpat - 1
                            \/ w.st.spat_img[start_row][i] < 0
    THEN \* follow_trace_moment: 'Starting coordinates incompatible ...'
         [w EXCEPT !.status = "ValueError"]
    ELSE Followed(w, side, indx,
                  PutFollowed(w.cen, "cen", indx, w.st.spat_img, start_row, f),
                  PutFollowed(w.err, "err", indx, w.st.spat_img, start_row, f),
                  PutFollowed(w.msk, "msk", indx, w.st.spat_img, start_row, f),
                  minimum_length)

\* while np.any(this_side & untraced)
RECURSIVE RefineSide(_, _, _, _)
RefineSide(w, side, f, minimum_length) ==
    IF w.status # "ok" \/ ThisSide(w.st.traceid, side) \cap w.untraced = {} THEN w
    ELSE CHOOSE out \in
            { RefineSide(w2, side, f, minimum_length) :
                w2 \in { Iteration(w, side, ThisSide(w.st.traceid, side) \cap w.untraced,
                                   most_common_trace_row(w.st.spat_msk,
                                       ThisSide(w.st.traceid, side) \cap w.untraced),
                                   f, minimum_length) } } : TRUE

\* for side in ['left', 'right']
RefineSides(st, f, minimum_length) ==
    RefineSide(
        RefineSide([st |-> st,
                    cen |-> Full(Len(st.traceid), 0),
                    err |-> Full(Len(st.traceid), 0),
                    msk |-> Full(Len(st.traceid), {}),
                    untraced |-> 1 .. Len(st.traceid),
                    rmtrace |-> {},
                    status |-> "ok"],
                   "left", f, minimum_length),
        "right", f, minimum_length)

\* "Update the image coordinates" and "Erase any previous fitting results"
Updated(st) == [st EXCEPT !.spat_img = RoundArr(st.spat_cen), !.spat_fit = None]

\* moment_refine(minimum_length, clip); f is what the image makes of each trace
\* followed.  A call that raises keeps what the iterations before it saved.
moment_refine ==
    /\ call.n < MaxCalls
    /\ log # None
    /\ UNCHANGED <<detVars, linkVars, fnVars>>
    /\ \E f \in [1 .. Len(traceid) -> FollowOutcomes],
          minimum_length \in {0, 1}, clip \in BOOLEAN :
          \E w \in { RefineSides(Self, f, minimum_length) } :
             IF w.status # "ok"
             THEN /\ Assign(w.st)
                  /\ log' = log
                  /\ call' = Called("moment_refine", clip, w.status)
             ELSE /\ \E st \in (IF clip THEN ResortedSets(Removed(Updated(w.st), w.rmtrace))
                                ELSE {Updated(w.st)}) : Assign(st)
                  /\ log' = Append(log, "moment_refine")
                  /\ call' = Called("moment_refine", clip, "ok")
    /\ UNCHANGED file

(***************************************************************************)
(* fit_refine and peak_refine                                              *)
(***************************************************************************)

\* What fit_trace can return for the traces: the centroids stay or move half a
\* pixel up, and the fit runs through them or is flat at the central row.
FitOutcomes == {"stay", "half"} \X {"through", "flat"}

FitCen(cen, o) ==
    [r \in DOMAIN cen |-> [i \in 1 .. Len(cen[r]) |->
        IF o[1] = "half" THEN cen[r][i] + 1 ELSE cen[r][i]]]

FitFit(cen, o) ==
    [r \in DOMAIN cen |-> [i \in 1 .. Len(cen[r]) |->
        IF o[2] = "flat" THEN cen[NSpec \div 2][i] ELSE cen[r][i]]]

\* "Save the results of the edge measurements ... and the model fits"
Fitted(st, o) ==
    [st EXCEPT !.spat_cen = FitCen(st.spat_cen, o),
               !.spat_err = Full(Len(st.traceid), MeasuredErr),
               !.spat_fit = FitFit(FitCen(st.spat_cen, o), o),
               !.spat_img = RoundArr(FitFit(FitCen(st.spat_cen, o), o))]

\* fit_refine(): every attribute is assigned after both sides are fitted, so a
\* fit that raises leaves the object as it was.
fit_refine ==
    /\ call.n < MaxCalls
    /\ log # None
    /\ UNCHANGED <<detVars, linkVars, fnVars>>
    /\ \/ \E o \in FitOutcomes :
             /\ Assign(Fitted(Self, o))
             /\ call' = Called("fit_refine", o, "ok")
       \/ /\ UNCHANGED <<traceid, spat_img, spat_cen, spat_err, spat_msk, spat_fit>>
          /\ call' = Called("fit_refine", None, "error")
    /\ UNCHANGED <<log, file>>

\* peak_refine(): peak_trace ends in exit() before it returns, so the lines of
\* peak_refine after its call never run.
peak_refine ==
    /\ call.n < MaxCalls
    /\ log # None
    /\ UNCHANGED <<detVars, linkVars, fnVars>>
    /\ call' = Called("peak_refine", None, "SystemExit")
    /\ UNCHANGED <<traceid, spat_img, spat_cen, spat_err, spat_msk, spat_fit, log, file>>

(***************************************************************************)
(* save and load                                                           *)
(***************************************************************************)

\* save()
save ==
    /\ call.n < MaxCalls
    /\ log # None
    /\ UNCHANGED <<detVars, linkVars, fnVars>>
    /\ file' = Saved(Self, log)
    /\ call' = Called("save", None, "ok")
    /\ UNCHANGED <<traceid, spat_img, spat_cen, spat_err, spat_msk, spat_fit, log>>

\* _reinit(hdu): the attributes read from the file, and the integer columns
\* computed from them.
Reinit(hdu) ==
    [traceid |-> hdu.traceid,
     spat_img |-> RoundArr(IF hdu.spat_fit = None THEN hdu.spat_cen ELSE hdu.spat_fit),
     spat_cen |-> hdu.spat_cen,
     spat_err |-> hdu.spat_err,
     spat_msk |-> hdu.spat_msk,
     spat_fit |-> hdu.spat_fit]

\* load()
load ==
    /\ call.n < MaxCalls
    /\ file # None
    /\ UNCHANGED <<detVars, linkVars, fnVars>>
    /\ Assign(Reinit(file))
    /\ log' = file.log
    /\ call' = Called("load", None, "ok")
    /\ UNCHANGED file

(***************************************************************************)
(* Spec: the object from its construction without a trace image on.        *)
(***************************************************************************)
NoSet ==
    /\ traceid = None
    /\ spat_img = None
    /\ spat_cen = None
    /\ spat_err = None
    /\ spat_msk = None
    /\ spat_fit = None
    /\ log = None
    /\ file = None
    /\ call = [name |-> "__init__", arg |-> None, outcome |-> "ok", again |-> FALSE, n |-> 0]

(***************************************************************************)
(* detect_slit_edges.  The flux values tried are perfect squares, so that  *)
(* the square-root image is one of integers; a significance is kept as the *)
(* ratio num/den of two integers with den > 0 and compared by cross        *)
(* multiplication.                                                         *)
(***************************************************************************)
DetRows == 0 .. (NDetRows - 1)
DetCols == 0 .. (NDetCols - 1)

\* An image with every cell evaluated once: the same array as img.
RECURSIVE FixRow(_, _)
FixRow(row, c) ==
    IF c >= NDetCols - 1 THEN (c :> row[c]) ELSE (c :> row[c]) @@ FixRow(row, c + 1)

RECURSIVE FixImg(_, _)
FixImg(img, r) ==
    IF r >= NDetRows - 1 THEN (r :> FixRow(img[r], 0))
    ELSE (r :> FixRow(img[r], 0)) @@ FixImg(img, r + 1)

\* np.sqrt of a perfect square
Sqrt(v) == CHOOSE s \in 0 .. v : s * s = v

\* sqmstrace = np.sqrt(np.abs(flux))
SqrtAbs(img) == [r \in DetRows |-> [c \in DetCols |-> Sqrt(Abs(img[r][c]))]]

\* The index that the boundary mode 'reflect' of scipy.ndimage reads for the
\* index i of an axis of length n: (d c b a | a b c d | d c b a).
Reflect(i, n) ==
    LET m == i % (2 * n)
    IN  IF m < n THEN m ELSE 2 * n - 1 - m

\* The values of the 7 x 3 window around (r, c), one per cell of the window.
MedianWindow(img, r, c) ==
    [k \in (-3 .. 3) \X (-1 .. 1) |->
        img[Reflect(r + k[1], NDetRows)][Reflect(c + k[2], NDetCols)]]

\* The median of the values of a window of an odd number of cells.
MedianOf(win) ==
    CHOOSE v \in { win[k] : k \in DOMAIN win } :
        /\ 2 * Cardinality({ k \in DOMAIN win : win[k] < v }) < Cardinality(DOMAIN win)
        /\ 2 * Cardinality({ k \in DOMAIN win : win[k] <= v }) > Cardinality(DOMAIN win)

\* ndimage.median_filter(sqmstrace, size=(7, 3))
MedianFilter(img) ==
    [r \in DetRows |-> [c \in DetCols |-> MedianOf(MedianWindow(img, r, c))]]

\* for ii in range(median_iterations)
RECURSIVE MedianIterations(_, _)
MedianIterations(img, n) ==
    IF n <= 0 THEN img ELSE MedianIterations(FixImg(MedianFilter(img), 0), n - 1)

\* "Make sure there are no spuriously low pixels": the square roots are not
\* negative, so only the first of the two assignments acts.
NoLowPixels(img) ==
    [r \in DetRows |-> [c \in DetCols |-> IF img[r][c] < 1 THEN 1 ELSE img[r][c]]]

\* The index read by a filter reaching one cell past an axis of length n.
SobelIndex(i, n, sobel_mode) ==
    IF i >= 0 /\ i < n THEN i
    ELSE IF sobel_mode = "mirror" THEN (IF i < 0 THEN 1 ELSE n - 2)
    ELSE IF sobel_mode = "wrap" THEN (IF i < 0 THEN n - 1 ELSE 0)
    ELSE \* 'nearest' and 'reflect' repeat the last cell
         (IF i < 0 THEN 0 ELSE n - 1)

\* The derivative [-1, 0, 1] along the columns.
SobelDiff(img, r, c, sobel_mode) ==
    img[r][SobelIndex(c + 1, NDetCols, sobel_mode)]
        - img[r][SobelIndex(c - 1, NDetCols, sobel_mode)]

\* ndimage.sobel(sqmstrace, axis=1, mode=sobel_mode): the derivative along the
\* columns smoothed by [1, 2, 1] along the rows.
Sobel(img, sobel_mode) ==
    [r \in DetRows |-> [c \in DetCols |->
          SobelDiff(img, SobelIndex(r - 1, NDetRows, sobel_mode), c, sobel_mode)
        + 2 * SobelDiff(img, r, c, sobel_mode)
        + SobelDiff(img, SobelIndex(r + 1, NDetRows, sobel_mode), c, sobel_mode)]]

\* _mask = np.zeros_like(flux, dtype=int) if mask is None else mask.astype(int)
IntMask(msk) == IF msk = None THEN [r \in DetRows |-> [c \in DetCols |-> 0]] ELSE msk

\* filt *= (1.0 - _mask)
ApplyMask(filt, msk) ==
    [r \in DetRows |-> [c \in DetCols |-> filt[r][c] * (1 - msk[r][c])]]

Sign(v) == IF v > 0 THEN 1 ELSE IF v < 0 THEN -1 ELSE 0

Max(a, b) == IF a >= b THEN a ELSE b

\* sobel_sig = np.sign(filt)*np.power(filt,2)/np.maximum(sqmstrace, min_sqm)
Significance(filt, sqm, min_sqm) ==
    [r \in DetRows |-> [c \in DetCols |->
        [num |-> Sign(filt[r][c]) * filt[r][c] * filt[r][c],
         den |-> Max(sqm[r][c], min_sqm)]]]

\* a > b, a < b, a <= b for ratios with positive denominators, and a ratio
\* against an integer
Greater(a, b) == a.num * b.den > b.num * a.den

GreaterThan(a, v) == a.num > v * a.den

LessThan(a, v) == a.num < v * a.den

\* "First edges assigned according to S/N": the second assignment is made
\* after the first.
FirstEdges(sig, sigdetect) ==
    [r \in DetRows |-> [c \in DetCols |->
        IF LessThan(sig[r][c], -sigdetect) THEN 1
        ELSE IF GreaterThan(sig[r][c], sigdetect) THEN -1
        ELSE 0]]

\* The columns under the filter of FilterSize cells centred on column c, read
\* with the boundary mode 'reflect'.
FilterCols(c) ==
    { Reflect(c + k, NDetCols) :
        k \in (-(FilterSize \div 2)) .. (FilterSize - (FilterSize \div 2) - 1) }

\* ndimage.maximum_filter1d(sobel_sig, 10, axis=1) == sobel_sig
IsMaximum(sig, r, c) == \A k \in FilterCols(c) : ~ Greater(sig[r][k], sig[r][c])

\* ndimage.minimum_filter1d(sobel_sig, 10, axis=1) == sobel_sig
IsMinimum(sig, r, c) == \A k \in FilterCols(c) : ~ Greater(sig[r][c], sig[r][k])

\* "Clean the edges"
CleanEdges(sig, first) ==
    [r \in DetRows |-> [c \in DetCols |->
        IF IsMinimum(sig, r, c) /\ first[r][c] = 1 THEN 1
        ELSE IF IsMaximum(sig, r, c) /\ first[r][c] = -1 THEN -1
        ELSE 0]]

\* edge_img *= (1-_mask) if mask is not None
MaskEdges(edges, msk) ==
    IF msk = None THEN edges
    ELSE [r \in DetRows |-> [c \in DetCols |-> edges[r][c] * (1 - msk[r][c])]]

\* sobel_sig *= (1-_mask) if mask is not None
MaskSig(sig, msk) ==
    IF msk = None THEN sig
    ELSE [r \in DetRows |-> [c \in DetCols |->
             [num |-> sig[r][c].num * (1 - msk[r][c]), den |-> sig[r][c].den]]]

\* The function from the significance image on.
DetectSig(sig, msk, par) ==
    [tedges |-> FirstEdges(sig, par.sigdetect),
     sobel_sig |-> MaskSig(sig, msk),
     edge_img |-> MaskEdges(CleanEdges(sig, FirstEdges(sig, par.sigdetect)), msk)]

\* The function from the floored square-root image on.
DetectSqm(sqm, msk, par) ==
    DetectSig(FixImg(Significance(ApplyMask(Sobel(sqm, par.sobel_mode), IntMask(msk)),
                                  sqm, par.min_sqm), 0),
              msk, par)

detect_slit_edges(img, msk, par) ==
    DetectSqm(FixImg(NoLowPixels(
                  MedianIterations(FixImg(SqrtAbs(img), 0), par.median_iterations)), 0),
              msk, par)

(***************************************************************************)
(* SpecDetect: detect_slit_edges applied to bounded images.                *)
(***************************************************************************)

\* One row of flux: Level b in the columns p .. p+w-1 and Level a elsewhere.
\* The images tried hold this profile in every row, moved by slant columns
\* from one row to the next.
FluxImgs ==
    { [r \in DetRows |-> [c \in DetCols |->
          IF c - r * slant >= p /\ c - r * slant < p + w THEN b ELSE a]] :
        a \in FluxLevels, b \in FluxLevels, p \in DetCols,
        w \in {1, NDetCols}, slant \in {0, 1} }

\* The masks tried: none, or one column of MaskCols holding a value of
\* MaskValues in every row.
Masks ==
    {None} \cup
    { [r \in DetRows |-> [c \in DetCols |-> IF c = m THEN v ELSE 0]] :
        m \in MaskCols, v \in MaskValues }

DetectPars ==
    [median_iterations : {0, 1}, min_sqm : {10, 30},
     sobel_mode : {"nearest", "mirror"}, sigdetect : {30, 200}]

NoDetect ==
    /\ dpc = "none"
    /\ flux = None
    /\ mask = None
    /\ det_par = None
    /\ tedges = None
    /\ sobel_sig = None
    /\ edge_out = None

DetectInit ==
    /\ dpc = "input"
    /\ flux \in FluxImgs
    /\ mask \in Masks
    /\ det_par \in DetectPars
    /\ tedges = None
    /\ sobel_sig = None
    /\ edge_out = None

\* A call of detect_slit_edges.
DetectCall ==
    /\ dpc = "input"
    /\ \E out \in { detect_slit_edges(flux, mask, det_par) } :
          /\ tedges' = out.tedges
          /\ sobel_sig' = out.sobel_sig
          /\ edge_out' = out.edge_img
    /\ dpc' = "returned"
    /\ UNCHANGED <<flux, mask, det_par, setVars, linkVars, fnVars>>

(***************************************************************************)
(* identify_traces                                                         *)
(***************************************************************************)

\* np.where(edge_img == side): the (row, col) of the pixels, in row-major order,
\* from linear index k on.
RECURSIVE Where(_, _, _)
Where(img, side, k) ==
    IF k >= NRows * NCols THEN << >>
    ELSE LET r == k \div NCols
             c == k % NCols
         IN  (IF img[r][c] = side THEN << <<r, c>> >> ELSE << >>)
                 \o Where(img, side, k + 1)

\* x = concatenate((lx, rx)), y = concatenate((-ly, ry)): one record per edge
\* pixel, left pixels first, the column of a left pixel negated.
EdgePixels(img) ==
    LET l == Where(img, -1, 0)
        r == Where(img, 1, 0)
    IN  [i \in 1 .. Len(l) |-> [x |-> l[i][1], y |-> -l[i][2]]]
            \o [i \in 1 .. Len(r) |-> [x |-> r[i][1], y |-> r[i][2]]]

\* A variant of PrevIndx that also reads the row row - spectral_memory.
PrevIndxInclusive(pix, row, spectral_memory) ==
    { i \in 1 .. Len(pix) : pix[i].x < row /\ pix[i].x >= row - spectral_memory }

\* prev_indx = (x < row) & (x > row - spectral_memory)
PrevIndx(pix, row, spectral_memory) ==
    { i \in 1 .. Len(pix) : pix[i].x < row /\ pix[i].x > row - spectral_memory }

\* uniq_y, uniq_i = np.unique(y[prev_indx], return_index=True): the distinct y
\* of the selected pixels in increasing order.
UniqY(pix, prev) == SortedSeq({ pix[i].y : i \in prev })

\* uniq_t = trace[prev_indx][uniq_i]: for each distinct y, the trace of its
\* first occurrence in array order.
UniqT(pix, trace, prev, uniq_y) ==
    [k \in 1 .. Len(uniq_y) |->
        trace[CHOOSE i \in prev :
                /\ pix[i].y = uniq_y[k]
                /\ \A j \in prev : pix[j].y = uniq_y[k] => i <= j]]

\* np.argmin(dist): the first index of the smallest distance.
ArgMin(dist) ==
    CHOOSE k \in 1 .. Len(dist) :
        /\ \A j \in 1 .. Len(dist) : dist[k] <= dist[j]
        /\ \A j \in 1 .. (k - 1) : dist[j] > dist[k]

\* dist = np.absolute(uniq_y - _y)
Dist(uniq_y, y) == [k \in 1 .. Len(uniq_y) |-> Abs(uniq_y[k] - y)]

\* The test that lets an edge inherit the ID of its nearest candidate.
Matches(d, max_spatial_separation) == d < max_spatial_separation

\* The first pass of "Assign trace IDs to this row" for one edge, given its
\* distances to the candidates: the ID matched, or -1.
MatchDist(dist, mindist, uniq_t, max_spatial_separation) ==
    IF Matches(dist[mindist], max_spatial_separation) THEN uniq_t[mindist] ELSE -1

MatchOne(y, uniq_y, uniq_t, max_spatial_separation) ==
    MatchDist(Dist(uniq_y, y), ArgMin(Dist(uniq_y, y)), uniq_t, max_spatial_separation)

\* row_trace[unassigned] = np.arange(n_unassigned) + last
RECURSIVE FillUnassigned(_, _, _)
FillUnassigned(row_trace, k, next) ==
    IF k > Len(row_trace) THEN row_trace
    ELSE IF row_trace[k] = -1
         THEN FillUnassigned([row_trace EXCEPT ![k] = next], k + 1, next + 1)
         ELSE FillUnassigned(row_trace, k + 1, next)

\* trace[indx] = row_trace, and the bookkeeping of the iteration.
AssignRow(st, row, indx, uniq_y, uniq_t, row_trace, minted) ==
    [trace |-> [j \in 1 .. Len(st.trace) |->
                    IF \E i \in 1 .. Len(indx) : indx[i] = j
                    THEN row_trace[CHOOSE i \in 1 .. Len(indx) : indx[i] = j]
                    ELSE st.trace[j]],
     last |-> st.last + minted,
     steps |-> Append(st.steps,
                   [row |-> row, indx |-> indx, uniq_y |-> uniq_y, uniq_t |-> uniq_t,
                    last |-> st.last, row_trace |-> row_trace])]

\* "Assign trace IDs to this row" when earlier rows give candidates.
MatchRow(pix, par, row, st, indx, uniq_y, uniq_t, matched) ==
    AssignRow(st, row, indx, uniq_y, uniq_t, FillUnassigned(matched, 1, st.last),
              Cardinality({ i \in 1 .. Len(matched) : matched[i] = -1 }))

CandRow(pix, par, row, st, indx, uniq_y, uniq_t) ==
    MatchRow(pix, par, row, st, indx, uniq_y, uniq_t,
             [i \in 1 .. Len(indx) |->
                 MatchOne(pix[indx[i]].y, uniq_y, uniq_t, par.max_spatial_separation)])

\* One iteration of "Loop over spectral channels" for a row holding the edges
\* indx, prev being the edges of the remembered rows.  st = [trace, last, steps].
LinkRowAt(pix, par, row, st, indx, prev) ==
    IF Len(indx) = 0 THEN st
    ELSE IF prev = {}
         THEN AssignRow(st, row, indx, << >>, << >>,
                        [i \in 1 .. Len(indx) |-> (i - 1) + st.last], Len(indx))
         ELSE CandRow(pix, par, row, st, indx, UniqY(pix, prev),
                      UniqT(pix, st.trace, prev, UniqY(pix, prev)))

LinkRow(pix, par, row, st) ==
    LinkRowAt(pix, par, row, st,
              SortedSeq({ i \in 1 .. Len(pix) : pix[i].x = row }),
              PrevIndx(pix, row, par.spectral_memory))

\* for row in range(np.amin(x), np.amax(x)+1)
RECURSIVE LinkRows(_, _, _, _, _)
LinkRows(pix, par, row, stop, st) ==
    IF row > stop THEN st
    ELSE \* the singleton set binds the value of this iteration for the next
         CHOOSE out \in { LinkRows(pix, par, row + 1, stop, s2) :
                            s2 \in { LinkRow(pix, par, row, st) } } : TRUE

\* The renumbering of one side from np.unique(trace[indx], return_inverse=True,
\* return_counts=True): uniq are the distinct IDs of the side in increasing
\* order; sgn = -1 numbers the good ones -1, -2, ..., sgn = 1 numbers them
\* 1, 2, ...; the others become 0.
GoodTrace(trace, indx, uniq, minimum_length) ==
    [k \in 1 .. Len(uniq) |->
        Cardinality({ i \in indx : trace[i] = uniq[k] }) > minimum_length]

RenumberWith(trace, indx, uniq, good_trace, sgn) ==
    [i \in 1 .. Len(trace) |->
        IF i \in indx
        THEN IF good_trace[CHOOSE k \in 1 .. Len(uniq) : uniq[k] = trace[i]]
             THEN sgn * Cardinality({ j \in 1 .. Len(uniq) :
                                        uniq[j] <= trace[i] /\ good_trace[j] })
             ELSE 0
        ELSE trace[i]]

RenumberUniq(trace, indx, uniq, minimum_length, sgn) ==
    RenumberWith(trace, indx, uniq, GoodTrace(trace, indx, uniq, minimum_length), sgn)

Renumber(trace, indx, minimum_length, sgn) ==
    RenumberUniq(trace, indx, SortedSeq({ trace[i] : i \in indx }), minimum_length, sgn)

\* trace_id_img[x, np.absolute(y)] = trace
IdImage(pix, trace) ==
    [r \in Rows |-> [c \in Cols |->
        IF \E i \in 1 .. Len(pix) : pix[i].x = r /\ Abs(pix[i].y) = c
        THEN trace[CHOOSE i \in 1 .. Len(pix) : pix[i].x = r /\ Abs(pix[i].y) = c]
        ELSE 0]]

\* "Reorder the traces and remove any that do not meet the specified length":
\* left edges are the pixels with y < 0, right edges all the others.
Reorder(pix, par, st, lindx) ==
    [xy |-> pix,
     steps |-> st.steps,
     trace |-> st.trace,
     img |-> IdImage(pix,
                Renumber(Renumber(st.trace, lindx, par.minimum_length, -1),
                         (1 .. Len(pix)) \ lindx, par.minimum_length, 1))]

MinRow(pix) == CHOOSE r \in Rows :
                  /\ \E i \in 1 .. Len(pix) : pix[i].x = r
                  /\ \A i \in 1 .. Len(pix) : r <= pix[i].x

MaxRow(pix) == CHOOSE r \in Rows :
                  /\ \E i \in 1 .. Len(pix) : pix[i].x = r
                  /\ \A i \in 1 .. Len(pix) : r >= pix[i].x

\* identify_traces once the coordinates pix of the edges are found.
IdentifyPixels(pix, par) ==
    Reorder(pix, par,
            LinkRows(pix, par, MinRow(pix), MaxRow(pix),
                     [trace |-> [i \in 1 .. Len(pix) |-> -1], last |-> 0,
                      steps |-> << >>]),
            { i \in 1 .. Len(pix) : pix[i].y < 0 })

identify_traces(img, par) == IdentifyPixels(EdgePixels(img), par)

(***************************************************************************)
(* SpecLink: identify_traces applied to bounded edge images.               *)
(***************************************************************************)

\* Rows of the edge images tried: no edge, one edge of either side in any
\* column, or two edges of one side in columns 0 and 1.
EdgeRows ==
    { row \in [Cols -> {-1, 0, 1}] :
        \/ Cardinality({ c \in Cols : row[c] # 0 }) <= 1
        \/ /\ Cardinality({ c \in Cols : row[c] # 0 }) = 2
           /\ row[0] # 0 /\ row[1] = row[0] }

\* A row without any edge.
NoEdge == [c \in Cols |-> 0]

\* The edge images tried: the first NFree rows are any of EdgeRows and the
\* others are empty; or one straight edge (one column, one side) present in
\* any subset of the rows.
EdgeImgs ==
    { img \in [Rows -> EdgeRows] : \A r \in Rows : r >= NFree => img[r] = NoEdge }
    \cup
    { [r \in Rows |-> [c \in Cols |-> IF c = col /\ r \in present THEN side ELSE 0]] :
        col \in Cols, side \in {-1, 1}, present \in SUBSET Rows }

LinkPars ==
    [max_spatial_separation : {1, 2}, spectral_memory : {2, 3}, minimum_length : {0, 1}]

NoLink ==
    /\ lpc = "none"
    /\ edge_img = None
    /\ link_par = None
    /\ xy = None
    /\ linking = None
    /\ link_trace = None
    /\ trace_id_img = None

LinkInit ==
    /\ lpc = "input"
    /\ edge_img \in EdgeImgs
    /\ link_par \in LinkPars
    /\ xy = None
    /\ linking = None
    /\ link_trace = None
    /\ trace_id_img = None

\* A call of identify_traces on an image with at least one edge pixel.
IdentifyCall ==
    /\ lpc = "input"
    /\ ~ \A r \in Rows, c \in Cols : edge_img[r][c] = 0
    /\ \E out \in { identify_traces(edge_img, link_par) } :
          /\ xy' = out.xy
          /\ linking' = out.steps
          /\ link_trace' = out.trace
          /\ trace_id_img' = out.img
    /\ lpc' = "returned"
    /\ UNCHANGED <<edge_img, link_par, setVars, detVars, fnVars>>

\* A call on an image without any edge pixel: np.amin(x) of the empty
\* coordinate array raises ValueError before anything is assigned.
IdentifyEmpty ==
    /\ lpc = "input"
    /\ \A r \in Rows, c \in Cols : edge_img[r][c] = 0
    /\ lpc' = "ValueError"
    /\ UNCHANGED <<edge_img, link_par, xy, linking, link_trace, trace_id_img>>
    /\ UNCHANGED <<setVars, detVars, fnVars>>

(***************************************************************************)
(* count_edge_traces, atleast_one_edge and handle_orphan_edge              *)
(***************************************************************************)

ORows == 0 .. (NORows - 1)
OCols == 0 .. (NOCols - 1)

\* np.amin(trace_img), np.amax(trace_img)
AMin(img) ==
    CHOOSE v \in { img[r][c] : r \in ORows, c \in OCols } :
        \A r \in ORows, c \in OCols : v <= img[r][c]

AMax(img) ==
    CHOOSE v \in { img[r][c] : r \in ORows, c \in OCols } :
        \A r \in ORows, c \in OCols : v >= img[r][c]

\* return 0 if nleft == 0 else -nleft, np.amax(trace_img)
count_edge_traces(img) == [nleft |-> -AMin(img), nright |-> AMax(img)]

\* sum_bpm = np.ones(...) if mask is None else np.sum(mask, axis=0)
SumBpm(msk) ==
    [c \in OCols |->
        IF msk = None THEN 1 ELSE Cardinality({ r \in ORows : msk[r][c] })]

\* np.where(sum_bpm == 0)[0]
GoodCols(msk) == { c \in OCols : SumBpm(msk)[c] = 0 }

\* _trace_img[:,col] = id
SetCol(img, col, id) ==
    [r \in ORows |-> [c \in OCols |-> IF c = col THEN id ELSE img[r][c]]]

\* The two insertions of atleast_one_edge, the left one first: gdi0 is the
\* first and gdi1 the last of the columns good.
AddEdges(img, n, good) ==
    LET gdi0 == CHOOSE c \in good : \A d \in good : c <= d
        gdi1 == CHOOSE c \in good : \A d \in good : c >= d
        withleft == IF n.nleft = 0 THEN SetCol(img, gdi0, -1) ELSE img
    IN  IF n.nright = 0 THEN SetCol(withleft, gdi1, 1) ELSE withleft

\* atleast_one_edge for the counts n: the value returned (None for an image
\* without traces and without valid flux), or the error raised by np.min of an
\* empty array when no column is good.
AtLeastOne(img, msk, valid, n) ==
    IF n.nleft # 0 /\ n.nright # 0 THEN [status |-> "ok", img |-> img]
    ELSE IF n.nleft = 0 /\ n.nright = 0 /\ ~ valid THEN [status |-> "ok", img |-> None]
    ELSE IF GoodCols(msk) = {} THEN [status |-> "ValueError", img |-> None]
    ELSE [status |-> "ok", img |-> AddEdges(img, n, GoodCols(msk))]

atleast_one_edge(img, msk, valid) == AtLeastOne(img, msk, valid, count_edge_traces(img))

\* The pixels of img with the value t.
PixelsOf(img, t) == { p \in ORows \X OCols : img[p[1]][p[2]] = t }

\* The k-th smallest of the values of sig on the pixels P.
KthValue(sig, P, k) ==
    CHOOSE v \in { sig[p[1]][p[2]] : p \in P } :
        /\ Cardinality({ p \in P : sig[p[1]][p[2]] < v }) < k
        /\ Cardinality({ p \in P : sig[p[1]][p[2]] <= v }) >= k

\* np.median(sobel_sig[img == t]), doubled: the sum of the two middle values
\* (the middle value twice for an odd number).  The median of no value is nan.
Median(sig, P) ==
    IF P = {} THEN [nan |-> TRUE, v |-> 0]
    ELSE [nan |-> FALSE,
          v |-> KthValue(sig, P, (Cardinality(P) + 1) \div 2)
                  + KthValue(sig, P, Cardinality(P) \div 2 + 1)]

\* np.argmax of the list med[0 .. n-1], n > 0: the first nan if there is one,
\* else the first of the largest values.  np.argmin of the negated list is
\* the same index.
ArgMax(med, n) ==
    IF \E k \in 0 .. (n - 1) : med[k].nan
    THEN CHOOSE k \in 0 .. (n - 1) :
             med[k].nan /\ \A j \in 0 .. (k - 1) : ~ med[j].nan
    ELSE CHOOSE k \in 0 .. (n - 1) :
             /\ \A j \in 0 .. (n - 1) : med[j].v <= med[k].v
             /\ \A j \in 0 .. (k - 1) : med[j].v < med[k].v

\* indx = img == best_trace; img[(img > 0) & np.invert(indx)] = 0; img[indx] = 1
KeepBest(img, best_trace) ==
    [r \in ORows |-> [c \in OCols |->
        IF img[r][c] = best_trace THEN 1
        ELSE IF img[r][c] > 0 THEN 0
        ELSE img[r][c]]]

\* "Find the most significant right trace": the list is built for
\* t in range(nright).
BestRight(img, sig, nright) ==
    ArgMax([t \in 0 .. (nright - 1) |-> Median(sig, PixelsOf(img, t))], nright) + 1

\* "Find the most significant left trace": the list is built for
\* t in range(nleft) from the pixels equal to -t.
BestLeft(img, sig, nleft) ==
    ArgMax([t \in 0 .. (nleft - 1) |-> Median(sig, PixelsOf(img, -t))], nleft) + 1

\* handle_orphan_edge after the call of atleast_one_edge returned img; n are
\* the counts taken on entry.
Restrict(img, sig, n) ==
    IF (n.nleft # 1 /\ n.nright # 1) \/ (n.nleft = 1 /\ n.nright = 1)
    THEN [status |-> "ok", img |-> img]
    ELSE IF n.nright > 1
    THEN [status |-> "ok", img |-> KeepBest(img, BestRight(img, sig, n.nright))]
    ELSE IF n.nleft <= 0
    THEN \* np.argmax of an empty list
         [status |-> "ValueError", img |-> None]
    ELSE [status |-> "ok", img |-> KeepBest(img, BestLeft(img, sig, n.nleft))]

HandleOrphan(img, sig, msk, valid, n) ==
    IF n.nleft = 0 \/ n.nright = 0
    THEN IF AtLeastOne(img, msk, valid, n).status = "ok"
         THEN Restrict(AtLeastOne(img, msk, valid, n).img, sig, n)
         ELSE AtLeastOne(img, msk, valid, n)
    ELSE Restrict(img, sig, n)

handle_orphan_edge(img, sig, msk, valid) ==
    HandleOrphan(img, sig, msk, valid, count_edge_traces(img))

(***************************************************************************)
(* SpecOrphan: handle_orphan_edge applied to bounded trace-ID images.      *)
(***************************************************************************)

\* The trace-ID images tried: every column holds one ID, in both rows or in
\* row 0 only, the IDs of each side are 1 .. n in absolute value, and some
\* pixel is no edge.
OrphanColumns == ((-MaxOrphan) .. MaxOrphan) \X {"all", "first"}

OrphanImgs ==
    { [r \in ORows |-> [c \in OCols |->
          IF f[c][2] = "all" \/ r = 0 THEN f[c][1] ELSE 0]] :
        f \in { g \in [OCols -> OrphanColumns] :
                  /\ \E c \in OCols : g[c][1] = 0 \/ g[c][2] = "first"
                  /\ { -g[c][1] : c \in { d \in OCols : g[d][1] < 0 } }
                        = 1 .. Cardinality({ -g[c][1] : c \in { d \in OCols : g[d][1] < 0 } })
                  /\ { g[c][1] : c \in { d \in OCols : g[d][1] > 0 } }
                        = 1 .. Cardinality({ g[c][1] : c \in { d \in OCols : g[d][1] > 0 } }) } }

\* The significance images tried: rising with the column, falling with the
\* column, and rising along the rows.
OrphanSigs ==
    { [r \in ORows |-> [c \in OCols |-> c + 1]],
      [r \in ORows |-> [c \in OCols |-> NOCols - c]],
      [r \in ORows |-> [c \in OCols |-> r * NOCols + c]] }

\* The masks tried: none, nothing masked, one pixel masked, all masked.
OrphanMasks ==
    { None, [r \in ORows |-> [c \in OCols |-> FALSE]],
      [r \in ORows |-> [c \in OCols |-> TRUE]] }
    \cup { [r \in ORows |-> [c \in OCols |-> r = 0 /\ c = m]] : m \in {0, NOCols - 1} }

NoOrphan ==
    /\ opc = "none"
    /\ orphan_img = None
    /\ orphan_sig = None
    /\ orphan_msk = None
    /\ flux_valid = FALSE
    /\ orphan_out = None

OrphanInit ==
    /\ opc = "input"
    /\ orphan_img \in OrphanImgs
    /\ orphan_sig \in OrphanSigs
    /\ orphan_msk \in OrphanMasks
    /\ flux_valid \in BOOLEAN
    /\ orphan_out = None

\* A call of handle_orphan_edge.
OrphanCall ==
    /\ opc = "input"
    /\ \E out \in { handle_orphan_edge(orphan_img, orphan_sig, orphan_msk, flux_valid) } :
          /\ opc' = out.status
          /\ orphan_out' = out.img
    /\ UNCHANGED <<orphan_img, orphan_sig, orphan_msk, flux_valid>>
    /\ UNCHANGED <<setVars, detVars, linkVars, momVars, folVars, refVars, moreVars>>

(***************************************************************************)
(* recenter_moment with uniform weighting.  A coordinate or a centre is    *)
(* the ratio <<n, d>> of two integers, d > 0, in lowest terms; an error is *)
(* <<s, n, d>>, the number s * sqrt(n / d).                                *)
(***************************************************************************)
RECURSIVE GCD(_, _)
GCD(a, b) == IF b = 0 THEN a ELSE GCD(b, a % b)

\* The ratio n / d in lowest terms, d # 0.
Rat(n, d) ==
    LET g == GCD(Abs(n), Abs(d))
        s == IF d < 0 THEN -1 ELSE 1
    IN  <<(s * n) \div g, (s * d) \div g>>

\* The error s * sqrt(n / d), n >= 0 and d > 0.
Err(s, n, d) == LET q == Rat(n, d) IN <<s, q[1], q[2]>>

\* fill_error = -1.
FillError == Err(-1, 1, 1)

\* ny, nx = flux.shape
ShapeOf(img) == [ny |-> Cardinality(DOMAIN img), nx |-> Cardinality(DOMAIN img[0])]

\* _ivar = np.ones_like(flux) if ivar is None else ivar
IvarOf(img, ivar) ==
    IF ivar = None THEN [r \in DOMAIN img |-> [c \in DOMAIN img[r] |-> 1]] ELSE ivar

\* _mask = np.zeros_like(flux, dtype=bool) if mask is None else mask
MaskOf(img, msk) ==
    IF msk = None THEN [r \in DOMAIN img |-> [c \in DOMAIN img[r] |-> FALSE]] ELSE msk

\* _ycen: the row of each guess.  ycen is [kind, v]: not given (v empty), one
\* row for every guess (v of length 1), or one row per guess.
YCen(xcen, ycen) ==
    IF ycen.kind = "none" THEN [i \in 1 .. Len(xcen) |-> i - 1]
    ELSE IF ycen.kind = "scalar" THEN [i \in 1 .. Len(xcen) |-> ycen.v[1]]
    ELSE ycen.v

\* A variant of the test of the rows that rejects the first row too.
OffImageInner(ycen, ny) == \E i \in DOMAIN ycen : ycen[i] < 1 \/ ycen[i] > ny - 1

\* np.amin(_ycen) < 0 or np.amax(_ycen) > ny-1
OffImage(ycen, ny) == \E i \in DOMAIN ycen : ycen[i] < 0 \/ ycen[i] > ny - 1

\* ix1 = np.floor(_xcen - _radius + 0.5), with _radius = width / 2
Ix1(xc, width) == (2 * xc[1] - width * xc[2] + xc[2]) \div (2 * xc[2])

\* ix2 = np.floor(_xcen + _radius + 0.5)
Ix2(xc, width) == (2 * xc[1] + width * xc[2] + xc[2]) \div (2 * xc[2])

MinOf(S) == CHOOSE v \in S : \A w \in S : v <= w

\* fullpix = int(np.amax(np.amin(ix2-ix1)-1,0)) + 3: the second argument of
\* np.amax is its axis, so that the value is np.amin(ix2-ix1) - 1.
FullPix(xcen, width) ==
    MinOf({ Ix2(xcen[i], width) - Ix1(xcen[i], width) : i \in DOMAIN xcen }) - 1 + 3

\* x = ix1[:,None]-1+np.arange(fullpix)[None,:], for one guess
WinX(xc, width, fullpix) == [j \in 0 .. (fullpix - 1) |-> Ix1(xc, width) - 1 + j]

\* np.clip(v, lo, hi)
Clip(v, lo, hi) == IF v < lo THEN lo ELSE IF v > hi THEN hi ELSE v

\* A variant of good that leaves the mask out.
GoodUnmasked(x, y, nx, msk, ivar) ==
    /\ x >= 0
    /\ x < nx
    /\ ivar[y][Clip(x, 0, nx - 1)] > 0

\* good, for the pixel x of row y
Good(x, y, nx, msk, ivar) ==
    /\ x >= 0
    /\ x < nx
    /\ ~ msk[y][Clip(x, 0, nx - 1)]
    /\ ivar[y][Clip(x, 0, nx - 1)] > 0

\* wt = good * np.clip(_radius - np.abs(x - _xcen) + 0.5, 0, 1), as the
\* numerator over the denominator 2 * d of the guess n / d.
Wt(x, xc, width, good) ==
    IF good
    THEN Clip((width + 1) * xc[2] - 2 * Abs(x * xc[2] - xc[1]), 0, 2 * xc[2])
    ELSE 0

RECURSIVE SumTo(_, _)
\* np.sum over the window: f[0] + ... + f[j]
SumTo(f, j) == IF j < 0 THEN 0 ELSE f[j] + SumTo(f, j - 1)

\* The sums of one guess: sumw (S), np.sum(fwt*x) (N) and the sum under the
\* square root of mue times S^2 (E), all in units of the weights' denominator.
Moments(img, xc, y, ivar, msk, width, fullpix) ==
    LET nx == ShapeOf(img).nx
        x == WinX(xc, width, fullpix)
        J == 0 .. (fullpix - 1)
        ih == [j \in J |-> Clip(x[j], 0, nx - 1)]
        wt == [j \in J |-> Wt(x[j], xc, width, Good(x[j], y, nx, msk, ivar))]
        fwt == [j \in J |-> img[y][ih[j]] * wt[j]]
        S == SumTo(fwt, fullpix - 1)
        N == SumTo([j \in J |-> fwt[j] * x[j]], fullpix - 1)
        W == { j \in J : ivar[y][ih[j]] # 0 }
        E == SumTo([j \in J |-> IF j \in W
                                  THEN (wt[j] * wt[j] * (x[j] * S - N) * (x[j] * S - N))
                                          \div ivar[y][ih[j]]
                                  ELSE 0], fullpix - 1)
    IN  [S |-> S, N |-> N, E |-> E, allmasked |-> W = {}]

\* bad = mu.mask | mue.mask: the division by sumw = 0 masks mu, and mue is
\* masked where mu is, where every term of its sum is masked (ivar = 0), and
\* where the sum is negative.
Bad(m) == m.S = 0 \/ m.allmasked \/ m.E < 0

\* mu[bad] = _xcen[bad]
Mu(m, xc) == IF Bad(m) THEN xc ELSE Rat(m.N, m.S)

\* mue[bad] = fill_error
Mue(m) == IF Bad(m) THEN FillError ELSE Err(1, m.E, m.S * m.S * m.S * m.S)

recenter_moment(img, xcen, ivar, msk, ycen, width) ==
    LET ny == ShapeOf(img).ny
        y == YCen(xcen, ycen)
        iv == IvarOf(img, ivar)
        mk == MaskOf(img, msk)
    IN  IF OffImage(y, ny) \/ Len(xcen) # Len(y)
        THEN [status |-> "ValueError", mu |-> None, mue |-> None, bad |-> None]
        ELSE LET fullpix == FullPix(xcen, width)
                 m == [i \in DOMAIN xcen |->
                          Moments(img, xcen[i], y[i], iv, mk, width, fullpix)]
             IN  [status |-> "ok",
                  mu |-> [i \in DOMAIN xcen |-> Mu(m[i], xcen[i])],
                  mue |-> [i \in DOMAIN xcen |-> Mue(m[i])],
                  bad |-> [i \in DOMAIN xcen |-> Bad(m[i])]]

\* The images tried: each row one of a few profiles.
MRows == 0 .. (NMRows - 1)
MCols == 0 .. (NMCols - 1)

Profiles ==
    { [c \in MCols |-> 0],
      [c \in MCols |-> IF c = 0 THEN 1 ELSE 0],
      [c \in MCols |-> IF c >= 1 THEN 1 ELSE 0],
      [c \in MCols |-> IF c = 0 THEN 1 ELSE IF c = 1 THEN -1 ELSE 0],
      [c \in MCols |-> IF c = 1 THEN 2 ELSE 1] }

MomentImgs == [MRows -> Profiles]

\* The masks tried: none, the first row masked, one pixel masked.
MomentMasks ==
    { None, [r \in MRows |-> [c \in MCols |-> r = 0]],
      [r \in MRows |-> [c \in MCols |-> r = 0 /\ c = 1]] }

\* The inverse variances tried: none, and zero in the first column.
MomentIvars == { None, [r \in MRows |-> [c \in MCols |-> IF c = 0 THEN 0 ELSE 1]] }

\* The guesses tried: one or two columns in steps of half a pixel, from a
\* pixel and a half outside the image on either side.
Halves == (0 - 3) .. (2 * NMCols + 1)

MomentGuesses ==
    { <<Rat(h, 2)>> : h \in Halves }
    \cup { <<Rat(h, 2), Rat(h + 1, 2)>> : h \in Halves \ {2 * NMCols + 1} }

\* The rows tried: not given, one row for all the guesses (off the image
\* too), and an array of two rows.
MomentRows ==
    { [kind |-> "none", v |-> << >>] }
    \cup { [kind |-> "scalar", v |-> <<y>>] : y \in (0 - 1) .. NMRows }
    \cup { [kind |-> "array", v |-> <<1, 0>>] }

NoMoment ==
    /\ mpc = "none"
    /\ m_in = None
    /\ m_out = None

MomentInit ==
    /\ mpc = "input"
    /\ m_in \in [flux : MomentImgs, xcen : MomentGuesses, ivar : MomentIvars,
                 mask : MomentMasks, ycen : MomentRows, width : 1 .. MaxWidth]
    /\ m_out = None

\* A call of recenter_moment.
MomentCall ==
    /\ mpc = "input"
    /\ \E out \in { recenter_moment(m_in.flux, m_in.xcen, m_in.ivar, m_in.mask,
                                    m_in.ycen, m_in.width) } :
          /\ mpc' = out.status
          /\ m_out' = out
    /\ UNCHANGED m_in
    /\ UNCHANGED <<setVars, detVars, linkVars, orphVars, folVars, refVars, moreVars>>

(***************************************************************************)
(* _recenter_trace_row and follow_trace_moment, with a bitmask: a mask     *)
(* word is the set of its flags that are on.                               *)
(***************************************************************************)
\* a - b, for two ratios
RSub(a, b) == Rat(a[1] * b[2] - b[1] * a[2], a[2] * b[2])

\* a + b
RAdd(a, b) == Rat(a[1] * b[2] + b[1] * a[2], a[2] * b[2])

\* np.absolute(a)
RAbs(a) == <<Abs(a[1]), a[2]>>

\* a > b
RGreater(a, b) == a[1] * b[2] > b[1] * a[2]

\* np.clip(a, -m, m)
RClip(a, m) ==
    IF RGreater(a, m) THEN m
    ELSE IF RGreater(<<0 - m[1], m[2]>>, a) THEN <<0 - m[1], m[2]>>
    ELSE a

\* xerr > maxerror, for the error s * sqrt(n / d)
ErrGreater(e, maxerror) ==
    e[1] > 0 /\ e[2] * maxerror[2] * maxerror[2] > maxerror[1] * maxerror[1] * e[3]

\* np.absolute(xfit - cen) > maxshift
LargeShift(xfit, cen, maxshift) == RGreater(RAbs(RSub(xfit, cen)), maxshift)

\* The mask word of one measurement (lines 2131-2138).
RowFlags(xfit, xerr, matherr, cen, maxshift, maxerror) ==
    (IF matherr THEN {"MATHERROR"} ELSE {})
    \cup (IF ErrGreater(xerr, maxerror) THEN {"MOMENTERROR"} ELSE {})
    \cup (IF LargeShift(xfit, cen, maxshift) THEN {"LARGESHIFT"} ELSE {})

\* A variant that imposes no maximum shift.
Unclamped(xfit, cen, maxshift) == xfit

\* xfit = np.clip(xfit - cen, -maxshift, maxshift)+cen
Clamped(xfit, cen, maxshift) == RAdd(RClip(RSub(xfit, cen), maxshift), cen)

\* indx = matherr | (xerr > maxerror)
Reset(xerr, matherr, maxerror) == matherr \/ ErrGreater(xerr, maxerror)

\* _recenter_trace_row: the centres, the errors and the mask words of the
\* guesses cen in one row from the result m of recenter_moment, or its
\* ValueError.
RowResult(m, cen, maxshift, maxerror) ==
    IF m.status # "ok" THEN [status |-> m.status, xfit |-> None, xerr |-> None, xmsk |-> None]
    ELSE [status |-> "ok",
          xfit |-> [i \in DOMAIN cen |->
                      IF Reset(m.mue[i], m.bad[i], maxerror) THEN cen[i]
                      ELSE Clamped(m.mu[i], cen[i], maxshift)],
          xerr |-> [i \in DOMAIN cen |->
                      IF Reset(m.mue[i], m.bad[i], maxerror) THEN FillError
                      ELSE m.mue[i]],
          xmsk |-> [i \in DOMAIN cen |->
                      RowFlags(m.mu[i], m.mue[i], m.bad[i], cen[i], maxshift, maxerror)]]

\* The singleton sets of this section bind a value once for its uses.
recenter_trace_row(row, cen, img, ivar, msk, width, maxshift, maxerror) ==
    CHOOSE out \in { RowResult(m, cen, maxshift, maxerror) :
                       m \in { recenter_moment(img, cen, ivar, msk,
                                               [kind |-> "scalar", v |-> <<row>>], width) } } :
        TRUE

\* np.any((_cen > nc-1) | (_cen < 0)) or start_row < 0 or start_row > nr-1
BadStart(start_row, cen, nr, nc) ==
    \/ \E i \in DOMAIN cen : cen[i][1] > (nc - 1) * cen[i][2] \/ cen[i][1] < 0
    \/ start_row < 0
    \/ start_row > nr - 1

RECURSIVE FollowUp(_, _, _, _)
\* for i in range(start_row+1,nr): the rows from i up, each from the row below
FollowUp(rows, i, nr, p) ==
    IF i > nr - 1 THEN rows
    ELSE CHOOSE out \in { FollowUp([rows EXCEPT ![i] = row], i + 1, nr, p) :
              row \in { recenter_trace_row(i, rows[i - 1].xfit, p.flux, p.ivar, p.mask,
                                           p.width, p.maxshift_follow, p.maxerror) } } : TRUE

RECURSIVE FollowDown(_, _, _)
\* for i in range(start_row-1,-1,-1): the rows from i down, each from the row above
FollowDown(rows, i, p) ==
    IF i < 0 THEN rows
    ELSE CHOOSE out \in { FollowDown([rows EXCEPT ![i] = row], i - 1, p) :
              row \in { recenter_trace_row(i, rows[i + 1].xfit, p.flux, p.ivar, p.mask,
                                           p.width, p.maxshift_follow, p.maxerror) } } : TRUE

\* The rows of trace i flagged DISCONTINUOUS (lines 2044-2054): xm[s:,i] with
\* s the first bad row above the start row, and xm[:e,i] with e the last bad
\* row below the start row, less one.
Discontinuous(xm, i, start_row, nr) ==
    LET up == { r \in 0 .. (nr - 1) : xm[r][i] # {} /\ r > start_row }
        down == { r \in 0 .. (nr - 1) : xm[r][i] # {} /\ r < start_row }
        s == MinOf(up)
        e == (0 - MinOf({ 0 - r : r \in down })) - 1
    IN  (IF up # {} THEN { r \in 0 .. (nr - 1) : r >= s } ELSE {})
        \cup (IF down # {} THEN { r \in 0 .. (nr - 1) : r < e } ELSE {})

\* Keep only the continuous part of the trace (lines 2037-2054).
Continuous(xm, p, nr) ==
    [r \in 0 .. (nr - 1) |-> [i \in DOMAIN p.start_cen |->
        IF p.continuous /\ r \in Discontinuous(xm, i, p.start_row, nr)
        THEN xm[r][i] \cup {"DISCONTINUOUS"}
        ELSE xm[r][i]]]

\* The arrays returned from the rows recentred.
Returned(rows, p, nr) ==
    [status |-> "ok",
     xc |-> [r \in 0 .. (nr - 1) |-> rows[r].xfit],
     xe |-> [r \in 0 .. (nr - 1) |-> rows[r].xerr],
     xm |-> Continuous([r \in 0 .. (nr - 1) |-> rows[r].xmsk], p, nr)]

\* The rows recentred from the start row up and then down.
FollowRows(seed, p, nr) ==
    CHOOSE out \in { FollowDown(up, p.start_row - 1, p) :
                       up \in { FollowUp([r \in 0 .. (nr - 1) |-> seed],
                                         p.start_row + 1, nr, p) } } : TRUE

\* follow_trace_moment with a bitmask; p holds the arguments.
follow_moment(p) ==
    LET nr == ShapeOf(p.flux).ny
        nc == ShapeOf(p.flux).nx
    IN  IF BadStart(p.start_row, p.start_cen, nr, nc)
        THEN [status |-> "ValueError", xc |-> None, xe |-> None, xm |-> None]
        ELSE CHOOSE out \in { Returned(rows, p, nr) :
                rows \in { FollowRows(seed, p, nr) :
                    seed \in { recenter_trace_row(p.start_row, p.start_cen, p.flux, p.ivar,
                                                  p.mask, p.width, p.maxshift_start,
                                                  p.maxerror) } } } : TRUE

\* The images tried: each row one of the profiles.
FRows == 0 .. (NFRows - 1)

FollowImgs == [FRows -> Profiles]

\* The masks tried: none, and each single row masked.
FollowMasks == { None } \cup { [r \in FRows |-> [c \in MCols |-> r = b]] : b \in FRows }

\* The start columns tried: one trace in steps of half a pixel from half a
\* pixel outside the image, and two traces.
FollowStarts ==
    { <<Rat(h, 2)>> : h \in (0 - 1) .. (2 * NMCols - 1) } \cup { <<Rat(0, 1), Rat(2, 1)>> }

\* The largest errors tried: a fifth of a pixel and three pixels.
MaxErrors == { Rat(1, 5), Rat(3, 1) }

FollowArgs ==
    [flux : FollowImgs, start_row : (0 - 1) .. NFRows, start_cen : FollowStarts,
     ivar : {None}, mask : FollowMasks, width : {MaxWidth},
     maxshift_start : {Rat(1, 2)}, maxshift_follow : {Rat(1, 4)},
     maxerror : MaxErrors, continuous : BOOLEAN]

NoFollow ==
    /\ fpc = "none"
    /\ f_in = None
    /\ f_out = None

FollowInit ==
    /\ fpc = "input"
    /\ f_in \in FollowArgs
    /\ f_out = None

\* A call of follow_trace_moment.
FollowCall ==
    /\ fpc = "input"
    /\ \E out \in { follow_moment(f_in) } :
          /\ fpc' = out.status
          /\ f_out' = out
    /\ UNCHANGED f_in
    /\ UNCHANGED <<setVars, detVars, linkVars, orphVars, momVars, refVars, moreVars>>

(***************************************************************************)
(* The loop of moment_refine, one iteration at a time (SpecRefine).        *)
(***************************************************************************)
\* The book-keeping and the work arrays of moment_refine at its start.
Workspace(st) ==
    [st |-> st,
     cen |-> Full(Len(st.traceid), 0),
     err |-> Full(Len(st.traceid), 0),
     msk |-> Full(Len(st.traceid), {}),
     untraced |-> 1 .. Len(st.traceid),
     rmtrace |-> {},
     status |-> "ok"]

\* indx = this_side & untraced
ToRefine(w, side) == ThisSide(w.st.traceid, side) \cap w.untraced

\* The calls tried: on every object that initial_trace builds.
RefineArgs ==
    UNION { [st : {InitialSet(img, UniqueIds(img))},
             f : [1 .. Len(UniqueIds(img)) -> FollowOutcomes],
             minimum_length : {0, 1},
             clip : BOOLEAN] : img \in TraceIdImgs }

NoRefine ==
    /\ rpc = "none"
    /\ r_in = None
    /\ r_w = None
    /\ r_iters = << >>
    /\ r_out = None

RefineInit ==
    /\ rpc = "left"
    /\ r_in \in RefineArgs
    /\ r_w = Workspace(r_in.st)
    /\ r_iters = << >>
    /\ r_out = None

\* One pass of the body of "while np.any(this_side & untraced)".
RefineIterate ==
    /\ rpc \in {"left", "right"}
    /\ ToRefine(r_w, rpc) # {}
    /\ Len(r_iters) < MaxIters
    /\ \E w \in { Iteration(r_w, rpc, ToRefine(r_w, rpc),
                            most_common_trace_row(r_w.st.spat_msk, ToRefine(r_w, rpc)),
                            r_in.f, r_in.minimum_length) } :
          /\ r_w' = w
          /\ rpc' = IF w.status = "ok" THEN rpc ELSE "raised"
    /\ r_iters' = Append(r_iters, [side |-> rpc, indx |-> ToRefine(r_w, rpc)])
    /\ UNCHANGED <<r_in, r_out>>
    /\ UNCHANGED <<setVars, detVars, linkVars, orphVars, momVars, folVars, moreVars>>

\* The loop of the left side ends: the right side is next.
RefineNextSide ==
    /\ rpc = "left"
    /\ ToRefine(r_w, "left") = {}
    /\ rpc' = "right"
    /\ UNCHANGED <<r_in, r_w, r_iters, r_out>>
    /\ UNCHANGED <<setVars, detVars, linkVars, orphVars, momVars, folVars, moreVars>>

\* The loop of the right side ends: the lines after the loops, and the return.
RefineReturn ==
    /\ rpc = "right"
    /\ ToRefine(r_w, "right") = {}
    /\ rpc' = "returned"
    /\ r_out' \in (IF r_in.clip THEN ResortedSets(Removed(Updated(r_w.st), r_w.rmtrace))
                   ELSE {Updated(r_w.st)})
    /\ UNCHANGED <<r_in, r_w, r_iters>>
    /\ UNCHANGED <<setVars, detVars, linkVars, orphVars, momVars, folVars, moreVars>>

(***************************************************************************)
(* EdgeTraceSet.__init__                                                   *)
(***************************************************************************)

\* The trace data of an object that has not traced or loaded anything.
EmptySet ==
    [traceid |-> None, spat_img |-> None, spat_cen |-> None,
     spat_err |-> None, spat_msk |-> None, spat_fit |-> None]

\* __init__(..., trace_img, load) where the master file holds hdu (None: there
\* is no file): how the construction ends, and the trace data, the log and the
\* master file after it.  initial_trace is called with its default save=True.
\* Where the construction raises there is no object; st and log are then those
\* assigned before the error.
Construct(trace_img, ld, hdu) ==
    IF trace_img # None /\ ld
    THEN [status |-> "ValueError", st |-> EmptySet, log |-> None, file |-> hdu]
    ELSE IF ld
    THEN IF hdu = None
         THEN [status |-> "FileNotFoundError", st |-> EmptySet, log |-> None, file |-> hdu]
         ELSE [status |-> "ok", st |-> Reinit(hdu), log |-> hdu.log, file |-> hdu]
    ELSE IF trace_img # None
    THEN [status |-> "ok",
          st |-> InitialSet(trace_img, UniqueIds(trace_img)),
          log |-> <<"initial_trace">>,
          file |-> Saved(InitialSet(trace_img, UniqueIds(trace_img)), <<"initial_trace">>)]
    ELSE [status |-> "ok", st |-> EmptySet, log |-> None, file |-> hdu]

\* The master files tried: those saved by an initial_trace.
MasterFiles ==
    { Saved(InitialSet(img, UniqueIds(img)), <<"initial_trace">>) : img \in TraceIdImgs }

\* The constructions tried.
ConstructArgs ==
    [trace_img : TraceIdImgs \cup {None}, load : BOOLEAN, hdu : MasterFiles \cup {None}]

NoConstruct ==
    /\ cpc = "none"
    /\ c_in = None
    /\ c_out = None

ConstructInit ==
    /\ cpc = "input"
    /\ c_in \in ConstructArgs
    /\ c_out = None

\* A construction of the object.
ConstructCall ==
    /\ cpc = "input"
    /\ c_out' = Construct(c_in.trace_img, c_in.load, c_in.hdu)
    /\ cpc' = "returned"
    /\ UNCHANGED c_in
    /\ UNCHANGED <<setVars, detVars, linkVars, orphVars, momVars, folVars, refVars>>
    /\ UNCHANGED <<peakVars, cacheVars>>

(***************************************************************************)
(* peak_trace: the rows over which the rectified image is collapsed.  A    *)
(* fraction of smash_range is kept as its numerator over SmashDen.         *)
(***************************************************************************)

\* astype(int) of the fraction n/SmashDen, which is not negative
AsInt(n) == n \div SmashDen

\* smash_range = (0,1) if it is None, and
\* start, end = np.asarray(smash_range).astype(int)*nspec
SmashRows(smash_range, nspec) ==
    LET rng == IF smash_range = None THEN <<0, SmashDen>> ELSE smash_range
    IN  [start |-> AsInt(rng[1]) * nspec, end |-> AsInt(rng[2]) * nspec]

\* The ranges tried: None, or (lo, hi) with 0 <= lo < hi <= 1.
SmashRanges ==
    { <<lo, hi>> : lo \in 0 .. SmashDen, hi \in 0 .. SmashDen } \cap
    { rng \in (0 .. SmashDen) \X (0 .. SmashDen) : rng[1] < rng[2] }

SmashArgs == [smash_range : SmashRanges \cup {None}, nspec : 1 .. MaxSmashSpec]

NoPeak ==
    /\ ppc = "none"
    /\ p_in = None
    /\ p_out = None

PeakInit ==
    /\ ppc = "input"
    /\ p_in \in SmashArgs
    /\ p_out = None

\* peak_trace up to the collapse of the rectified image.
PeakCollapse ==
    /\ ppc = "input"
    /\ p_out' = SmashRows(p_in.smash_range, p_in.nspec)
    /\ ppc' = "collapsed"
    /\ UNCHANGED p_in
    /\ UNCHANGED <<setVars, detVars, linkVars, orphVars, momVars, folVars, refVars>>
    /\ UNCHANGED <<ctorVars, cacheVars>>

(***************************************************************************)
(* The Sobel images of the object: sobel_sig and the images prepared from  *)
(* it for each side.  A value of an image is kept in tenths, a value of a  *)
(* smoothed image as its numerator over ten times the size of the boxcar.  *)
(* The trace data are left out: a refinement may raise at either side.     *)
(***************************************************************************)

SobelRows == 0 .. (NSobelRows - 1)

\* The Sobel images tried: one column.
SobelImgs == [SobelRows -> [{0} -> SobelLevels]]

\* np.maximum(sobel_sig, -0.1), or np.maximum(-1*sobel_sig, -0.1) for the right
Flipped(v, side) ==
    LET w == IF side = "left" THEN v ELSE -v
    IN  IF w < -1 THEN -1 ELSE w

\* _nave = np.fmin(nave, img.shape[0]) for the boxcar of 5 pixels
Nave == IF 5 < NSobelRows THEN 5 ELSE NSobelRows

\* The row that mode='nearest' reads for the row r.
Nearest(r) == IF r < 0 THEN 0 ELSE IF r > NSobelRows - 1 THEN NSobelRows - 1 ELSE r

\* The rows under the kernel of ndimage.convolve centred on row r.
Kernel(r) == [k \in 1 .. Nave |-> Nearest(r - ((Nave - 1) \div 2) + (k - 1))]

RECURSIVE KernelSum(_, _, _, _, _)
KernelSum(img, c, side, rows, k) ==
    IF k = 0 THEN 0
    ELSE Flipped(img[rows[k]][c], side) + KernelSum(img, c, side, rows, k - 1)

\* prepare_sobel_for_trace(sobel_sig, boxcar=5, side=side)
prepare_sobel_for_trace(img, side) ==
    [r \in SobelRows |-> [c \in {0} |-> KernelSum(img, c, side, Kernel(r), Nave)]]

\* The prepared images and the count of their computations as one record.
Cache == [left |-> sobel_sig_left, right |-> sobel_sig_righ, computed |-> computed]

\* _side_dependent_sobel(side)
side_dependent_sobel(c, side) ==
    IF side = "left"
    THEN IF c.left = None
         THEN [c EXCEPT !.left = prepare_sobel_for_trace(sobel_sig, "left"),
                        !.computed.left = @ + 1]
         ELSE c
    ELSE IF c.right = None
         THEN [c EXCEPT !.right = prepare_sobel_for_trace(sobel_sig, "right"),
                        !.computed.right = @ + 1]
         ELSE c

\* The count of the computations starts again; dropped tells that a prepared
\* image has been discarded.
Recount ==
    computed' = [left |-> 0, right |-> 0,
                 dropped |-> (\/ computed.dropped
                              \/ sobel_sig_left # None
                              \/ sobel_sig_righ # None)]

\* A variant of Replaced that keeps the prepared images.
ReplacedOnly(img) ==
    /\ sobel_sig' = img
    /\ UNCHANGED <<sobel_sig_left, sobel_sig_righ>>
    /\ Recount

\* self.sobel_sig = ...; self.sobel_sig_left = None; self.sobel_sig_righ = None
Replaced(img) ==
    /\ sobel_sig' = img
    /\ sobel_sig_left' = None
    /\ sobel_sig_righ' = None
    /\ Recount

\* The object as __init__ leaves it, with no master file written.
NoCache ==
    /\ sobel_sig_left = None
    /\ sobel_sig_righ = None
    /\ sobel_hdu = None
    /\ computed = [left |-> 0, right |-> 0, dropped |-> FALSE]
    /\ sobel_n = 0

\* initial_trace(trace_img, save) where detect_slit_edges makes img of the
\* image: it raises before the detection (the image is not 2D, the mask has
\* another shape), after it (identify_traces finds no edge), or completes.
SobelTrace ==
    /\ sobel_n < MaxSobelCalls
    /\ \E img \in SobelImgs, saving \in BOOLEAN,
          raised \in {"before", "after", "never"} :
          IF raised = "before"
          THEN UNCHANGED <<sobel_sig, sobel_sig_left, sobel_sig_righ, computed, sobel_hdu>>
          ELSE /\ Replaced(img)
               /\ sobel_hdu' = IF raised = "never" /\ saving THEN img ELSE sobel_hdu
    /\ sobel_n' = sobel_n + 1
    /\ UNCHANGED <<dpc, flux, mask, det_par, tedges, edge_out>>
    /\ UNCHANGED <<setVars, linkVars, orphVars, momVars, folVars, refVars>>
    /\ UNCHANGED <<ctorVars, peakVars>>

\* save(): the extension SOBELSIG of the master file
SobelSave ==
    /\ sobel_n < MaxSobelCalls
    /\ sobel_sig # None
    /\ sobel_hdu' = sobel_sig
    /\ sobel_n' = sobel_n + 1
    /\ UNCHANGED <<sobel_sig, sobel_sig_left, sobel_sig_righ, computed>>
    /\ UNCHANGED <<dpc, flux, mask, det_par, tedges, edge_out>>
    /\ UNCHANGED <<setVars, linkVars, orphVars, momVars, folVars, refVars>>
    /\ UNCHANGED <<ctorVars, peakVars>>

\* load(): _reinit(hdu) of the master file
SobelLoad ==
    /\ sobel_n < MaxSobelCalls
    /\ sobel_hdu # None
    /\ Replaced(sobel_hdu)
    /\ sobel_n' = sobel_n + 1
    /\ UNCHANGED sobel_hdu
    /\ UNCHANGED <<dpc, flux, mask, det_par, tedges, edge_out>>
    /\ UNCHANGED <<setVars, linkVars, orphVars, momVars, folVars, refVars>>
    /\ UNCHANGED <<ctorVars, peakVars>>

\* moment_refine() or fit_refine(): "for side in ['left', 'right']" with
\* _side_dependent_sobel(side) first in its body; the pass of the left side
\* raises, or the right side is reached.
SobelRefine ==
    /\ sobel_n < MaxSobelCalls
    /\ sobel_sig # None
    /\ \E raised \in {"left", "later"} :
          \E c \in { IF raised = "left" THEN side_dependent_sobel(Cache, "left")
                     ELSE side_dependent_sobel(side_dependent_sobel(Cache, "left"),
                                               "right") } :
             /\ sobel_sig_left' = c.left
             /\ sobel_sig_righ' = c.right
             /\ computed' = c.computed
    /\ sobel_n' = sobel_n + 1
    /\ UNCHANGED <<sobel_sig, sobel_hdu>>
    /\ UNCHANGED <<dpc, flux, mask, det_par, tedges, edge_out>>
    /\ UNCHANGED <<setVars, linkVars, orphVars, momVars, folVars, refVars>>
    /\ UNCHANGED <<ctorVars, peakVars>>

\* No call of __init__ or of peak_trace, and the Sobel images as constructed.
NoMore == NoConstruct /\ NoPeak /\ NoCache

(***************************************************************************)
(* The specifications.                                                     *)
(***************************************************************************)
\* No call of the functions outside the specification at hand.
NoFn == NoOrphan /\ NoMoment /\ NoFollow /\ NoRefine /\ NoMore

Init == NoSet /\ NoDetect /\ NoLink /\ NoFn

Next ==
    \/ initial_trace
    \/ moment_refine
    \/ fit_refine
    \/ peak_refine
    \/ remove_traces
    \/ resort_trace_ids
    \/ save
    \/ load

Spec == Init /\ [][Next]_vars

InitDetect == NoSet /\ DetectInit /\ NoLink /\ NoFn

NextDetect == DetectCall

SpecDetect == InitDetect /\ [][NextDetect]_vars

InitLink == NoSet /\ NoDetect /\ LinkInit /\ NoFn

NextLink == IdentifyCall \/ IdentifyEmpty

SpecLink == InitLink /\ [][NextLink]_vars

InitOrphan ==
    NoSet /\ NoDetect /\ NoLink /\ OrphanInit /\ NoMoment /\ NoFollow /\ NoRefine /\ NoMore

NextOrphan == OrphanCall

SpecOrphan == InitOrphan /\ [][NextOrphan]_vars

InitMoment ==
    NoSet /\ NoDetect /\ NoLink /\ NoOrphan /\ MomentInit /\ NoFollow /\ NoRefine /\ NoMore

NextMoment == MomentCall

SpecMoment == InitMoment /\ [][NextMoment]_vars

InitFollow ==
    NoSet /\ NoDetect /\ NoLink /\ NoOrphan /\ NoMoment /\ FollowInit /\ NoRefine /\ NoMore

NextFollow == FollowCall

SpecFollow == InitFollow /\ [][NextFollow]_vars

InitRefine ==
    NoSet /\ NoDetect /\ NoLink /\ NoOrphan /\ NoMoment /\ NoFollow /\ RefineInit /\ NoMore

NextRefine == RefineIterate \/ RefineNextSide \/ RefineReturn

\* The statements of one call run one after the other, none is put off for ever.
SpecRefine == InitRefine /\ [][NextRefine]_vars /\ WF_vars(NextRefine)

NoCalls == NoOrphan /\ NoMoment /\ NoFollow /\ NoRefine

InitConstruct ==
    NoSet /\ NoDetect /\ NoLink /\ NoCalls /\ ConstructInit /\ NoPeak /\ NoCache

NextConstruct == ConstructCall

SpecConstruct == InitConstruct /\ [][NextConstruct]_vars

InitPeak ==
    NoSet /\ NoDetect /\ NoLink /\ NoCalls /\ NoConstruct /\ PeakInit /\ NoCache

NextPeak == PeakCollapse

SpecPeak == InitPeak /\ [][NextPeak]_vars

InitSobel ==
    NoSet /\ NoDetect /\ NoLink /\ NoCalls /\ NoConstruct /\ NoPeak /\ NoCache

NextSobel == SobelTrace \/ SobelSave \/ SobelLoad \/ SobelRefine

SpecSobel == InitSobel /\ [][NextSobel]_vars

(***************************************************************************)
(* Claims about the EdgeTraceSet object (checked under Spec).              *)
(***************************************************************************)

\* C1: in every state reached by the operations of the object, spat_img equals
\* round(spat_fit) when spat_fit is present and round(spat_cen) otherwise, cell
\* for cell.
C1_ColumnsAreRounded ==
    log # None =>
        spat_img = RoundArr(IF spat_fit = None THEN spat_cen ELSE spat_fit)

\* An array has the shape (nspec, ntrace), ntrace being the length of traceid.
HasShape(arr) ==
    /\ DOMAIN arr = SpecRows
    /\ \A r \in SpecRows : DOMAIN arr[r] = 1 .. Len(traceid)

\* C2: after initial_trace and any sequence of the other operations, spat_img,
\* spat_cen, spat_err, spat_msk, and spat_fit when present, all have the shape
\* (nspec, ntrace) where ntrace is the length of traceid.
C2_Shapes ==
    log # None =>
        /\ HasShape(spat_img)
        /\ HasShape(spat_cen)
        /\ HasShape(spat_err)
        /\ HasShape(spat_msk)
        /\ spat_fit # None => HasShape(spat_fit)

\* C2 witness: traces were removed from a trace set that holds a fit, and
\* some trace is left.
C2_Witness ==
    /\ call.name = "remove_traces"
    /\ call.arg.indx # {}
    /\ Len(traceid) > 0
    /\ spat_fit # None

\* The data of trace i in the arrays of the trace set st.
Column(st, i) ==
    [spat_img |-> [r \in SpecRows |-> st.spat_img[r][i]],
     spat_cen |-> [r \in SpecRows |-> st.spat_cen[r][i]],
     spat_err |-> [r \in SpecRows |-> st.spat_err[r][i]],
     spat_msk |-> [r \in SpecRows |-> st.spat_msk[r][i]],
     spat_fit |-> IF st.spat_fit = None THEN None
                  ELSE [r \in SpecRows |-> st.spat_fit[r][i]]]

\* The trace data of the object after the step.
SelfNext ==
    [traceid |-> traceid', spat_img |-> spat_img', spat_cen |-> spat_cen',
     spat_err |-> spat_err', spat_msk |-> spat_msk', spat_fit |-> spat_fit']

\* The trace IDs differ from one another and from 0.
C3_UniqueIds ==
    log # None =>
        /\ \A i, j \in 1 .. Len(traceid) : i # j => traceid[i] # traceid[j]
        /\ \A i \in 1 .. Len(traceid) : traceid[i] # 0

\* After resort_trace_ids the IDs of each side are 1 .. n in absolute value, and
\* of two traces of a side the one with the smaller number does not have the
\* larger mean centroid.
C3_Sequential ==
    (call.name = "resort_trace_ids") =>
        LET left == { i \in 1 .. Len(traceid) : traceid[i] < 0 }
            right == { i \in 1 .. Len(traceid) : traceid[i] > 0 }
        IN  /\ { -traceid[i] : i \in left } = 1 .. Cardinality(left)
            /\ { traceid[i] : i \in right } = 1 .. Cardinality(right)
            /\ \A i, j \in 1 .. Len(traceid) :
                  ( /\ Sign(traceid[i]) = Sign(traceid[j])
                    /\ Abs(traceid[i]) < Abs(traceid[j]) )
                  => SumRows(spat_cen, i, 0) <= SumRows(spat_cen, j, 0)

\* A step of resort_trace_ids moves the traces as wholes: some permutation p
\* takes every column of every array, and the side of its ID, from position
\* p[k] to position k.
C3_Permuted ==
    (call'.name = "resort_trace_ids") =>
        /\ Len(traceid') = Len(traceid)
        /\ \E p \in Perms(Len(traceid)) :
              \A k \in 1 .. Len(traceid) :
                  /\ Column(SelfNext, k) = Column(Self, p[k])
                  /\ Sign(traceid'[k]) = Sign(traceid[p[k]])

\* C3: trace IDs are unique and nonzero in every state; after resort_trace_ids
\* the left IDs are exactly -1 .. -nL and the right IDs exactly 1 .. nR, each
\* side numbered in increasing order of the mean centroid column, and every
\* per-trace column is permuted along with its ID.
C3_ResortedIds ==
    /\ [](C3_UniqueIds /\ C3_Sequential)
    /\ [][C3_Permuted]_vars

\* C3 witness: resort_trace_ids moved the traces of a set with both sides.
C3_Witness ==
    /\ call.name = "resort_trace_ids"
    /\ call.arg # [k \in 1 .. Len(traceid) |-> k]
    /\ \E i, j \in 1 .. Len(traceid) : traceid[i] < 0 /\ traceid[j] > 0

\* C4: a call of resort_trace_ids directly after a call of resort_trace_ids
\* leaves traceid and every array unchanged.
C4_ResortIdempotent ==
    [][ ( /\ call.name = "resort_trace_ids"
          /\ call'.name = "resort_trace_ids"
          /\ call'.n = call.n + 1 )
        => SelfNext = Self ]_vars

\* The position after the removal of the trace at position i that is kept.
NewPosition(i, indx) == i - Cardinality({ j \in indx : j < i })

\* The array new is the array old without the columns indx, the others in
\* their order.
Without(new, old, indx, n) ==
    /\ DOMAIN new = DOMAIN old
    /\ \A r \in DOMAIN old :
          /\ Len(new[r]) = n - Cardinality(indx)
          /\ \A i \in (1 .. n) \ indx : new[r][NewPosition(i, indx)] = old[r][i]

\* A step of remove_traces(indx, sortid=False) on n traces.
C5_Removed(indx, n) ==
    /\ Len(traceid') = n - Cardinality(indx)
    /\ \A i \in (1 .. n) \ indx : traceid'[NewPosition(i, indx)] = traceid[i]
    /\ Without(spat_img', spat_img, indx, n)
    /\ Without(spat_cen', spat_cen, indx, n)
    /\ Without(spat_err', spat_err, indx, n)
    /\ Without(spat_msk', spat_msk, indx, n)
    /\ IF spat_fit = None THEN spat_fit' = None
       ELSE Without(spat_fit', spat_fit, indx, n)
    /\ indx = {} => SelfNext = Self

\* C5: remove_traces(indx) with sortid=False deletes exactly the traces of indx
\* from traceid and from every array, keeps the other traces with their data in
\* their order, and with an empty selection leaves the trace set as it was.
C5_RemoveExact ==
    [][ (call'.name = "remove_traces" /\ ~ call'.arg.sortid)
        => C5_Removed(call'.arg.indx, Len(traceid)) ]_vars

\* C5 witness: remove_traces without re-sorting took some traces out of a set
\* and left others.
C5_Witness ==
    /\ call.name = "remove_traces"
    /\ ~ call.arg.sortid
    /\ call.arg.indx # {}
    /\ Len(traceid) > 0

(***************************************************************************)
(* Claims about detect_slit_edges (checked under SpecDetect).              *)
(***************************************************************************)

\* C6: every value of the edge image is -1, 0 or 1; a pixel is -1 only if its
\* significance is greater than the threshold and 1 only if its significance
\* is less than minus the threshold.
C6_EdgeValues ==
    dpc = "returned" =>
        \A r \in DetRows, c \in DetCols :
            /\ edge_out[r][c] \in {-1, 0, 1}
            /\ edge_out[r][c] = -1 => GreaterThan(sobel_sig[r][c], det_par.sigdetect)
            /\ edge_out[r][c] = 1 => LessThan(sobel_sig[r][c], -det_par.sigdetect)

\* C7: no two horizontally adjacent pixels of a row are both marked -1, and
\* none are both marked 1.
C7_NoAdjacentEdges ==
    dpc = "returned" =>
        \A r \in DetRows, c \in DetCols :
            c + 1 \in DetCols =>
                /\ ~ (edge_out[r][c] = -1 /\ edge_out[r][c + 1] = -1)
                /\ ~ (edge_out[r][c] = 1 /\ edge_out[r][c + 1] = 1)

(***************************************************************************)
(* Claims about identify_traces (checked under SpecLink).                  *)
(***************************************************************************)

\* The edge image holds one straight edge of side s in column c, present in
\* every row except the rows strictly between r1 and r2.
StraightWithGap(c, s, r1, r2) ==
    \A r \in Rows, k \in Cols :
        edge_img[r][k] = IF k = c /\ (r <= r1 \/ r >= r2) THEN s ELSE 0

\* C8: a straight same-side edge with g consecutive empty rows, long enough on
\* both sides to survive the length cut, keeps one trace ID across the gap when
\* g < spectral_memory and gets two different IDs when g > spectral_memory.
C8_GapLinking ==
    lpc = "returned" =>
        \A c \in Cols, s \in {-1, 1}, r1 \in Rows, r2 \in Rows :
            ( /\ r2 > r1 + 1
              /\ StraightWithGap(c, s, r1, r2)
              /\ r1 + 1 > link_par.minimum_length
              /\ NRows - r2 > link_par.minimum_length )
            => LET g == r2 - r1 - 1
               IN  /\ g < link_par.spectral_memory
                        => trace_id_img[r1][c] = trace_id_img[r2][c]
                   /\ g > link_par.spectral_memory
                        => trace_id_img[r1][c] # trace_id_img[r2][c]

\* The smallest distance of y to the candidates uniq_y.
NearestDist(uniq_y, y) ==
    LET ds == { Abs(uniq_y[k] - y) : k \in 1 .. Len(uniq_y) }
    IN  CHOOSE d \in ds : \A e \in ds : d <= e

\* C9: an edge pixel of a row with candidates inherits the ID of its nearest
\* candidate if and only if its distance to it is <= max_spatial_separation;
\* otherwise it gets an ID never used before.
C9_InheritWithinSeparation ==
    lpc = "returned" =>
        \A n \in 1 .. Len(linking) :
            LET s == linking[n]
            IN  Len(s.uniq_y) > 0 =>
                  \A i \in 1 .. Len(s.indx) :
                      LET y == xy[s.indx[i]].y
                          d == NearestDist(s.uniq_y, y)
                          near == { s.uniq_t[k] : k \in { j \in 1 .. Len(s.uniq_y) :
                                                           Abs(s.uniq_y[j] - y) = d } }
                      IN  IF d <= link_par.max_spatial_separation
                          THEN s.row_trace[i] \in near
                          ELSE /\ s.row_trace[i] >= s.last
                               /\ \A j \in 1 .. Len(s.indx) :
                                     j # i => s.row_trace[j] # s.row_trace[i]

\* The candidates of one iteration as a set of <<position, trace>> pairs.
Candidates(s) == { <<s.uniq_y[k], s.uniq_t[k]>> : k \in 1 .. Len(s.uniq_y) }

SideOf(j) == edge_img[xy[j].x][Abs(xy[j].y)]

\* C11: every pixel marked -1 ends with a trace ID <= 0 and every pixel marked
\* +1 with a trace ID >= 0, and an ID that a pixel takes over from the
\* remembered rows is held there by pixels of its own side only.
C11_SidesIndependent ==
    lpc = "returned" =>
        /\ \A r \in Rows, c \in Cols :
              /\ edge_img[r][c] = -1 => trace_id_img[r][c] <= 0
              /\ edge_img[r][c] = 1 => trace_id_img[r][c] >= 0
        /\ \A n \in 1 .. Len(linking) :
              LET s == linking[n]
                  win == { j \in 1 .. Len(xy) :
                              xy[j].x < s.row /\ xy[j].x > s.row - link_par.spectral_memory }
              IN  \A i \in 1 .. Len(s.indx) :
                      s.row_trace[i] < s.last =>
                          \A j \in win :
                              link_trace[j] = s.row_trace[i] => SideOf(j) = SideOf(s.indx[i])


\* The edge pixels of side sd that linking put in trace t.
TracePixels(sd, t) == { j \in 1 .. Len(xy) : SideOf(j) = sd /\ link_trace[j] = t }

\* The traces of side sd with more than minimum_length pixels.
Survivors(sd) ==
    { t \in { link_trace[j] : j \in 1 .. Len(xy) } :
        Cardinality(TracePixels(sd, t)) > link_par.minimum_length }

\* The first pixel of trace t of side sd in the order the rows are processed.
Discovery(sd, t) ==
    CHOOSE j \in TracePixels(sd, t) : \A k \in TracePixels(sd, t) : j <= k

\* C12: every trace with no more than minimum_length pixels is zero in the ID
\* image, and the surviving left traces are numbered -1, -2, ... and the
\* surviving right traces 1, 2, ... without gaps in the order of discovery.
C12_LengthCutAndNumbering ==
    lpc = "returned" =>
        \A sd \in {-1, 1} :
            \A t \in { link_trace[j] : j \in 1 .. Len(xy) } :
                \A j \in TracePixels(sd, t) :
                    trace_id_img[xy[j].x][Abs(xy[j].y)] =
                        IF t \in Survivors(sd)
                        THEN sd * Cardinality({ u \in Survivors(sd) :
                                        Discovery(sd, u) <= Discovery(sd, t) })
                        ELSE 0


(***************************************************************************)
(* Claims about handle_orphan_edge (checked under SpecOrphan).             *)
(***************************************************************************)

\* The number of left and of right traces of a trace-ID image.
NLeft(img) == Cardinality({ img[r][c] : r \in ORows, c \in OCols } \cap ((-MaxOrphan) .. -1))

NRight(img) == Cardinality({ img[r][c] : r \in ORows, c \in OCols } \cap (1 .. MaxOrphan))

\* The columns without a masked pixel; every column when there is no mask.
Unmasked ==
    IF orphan_msk = None THEN OCols
    ELSE { c \in OCols : \A r \in ORows : ~ orphan_msk[r][c] }

\* C13: for a trace-ID image with no left or no right trace, valid flux and
\* some column without masked pixel, handle_orphan_edge returns without error
\* an image with a left and a right trace; a missing left trace is added as
\* ID -1 filling the first column without masked pixel and a missing right
\* trace as ID 1 filling the last one; without mask and without traces the
\* result is exactly column 0 at -1 and column nspat-1 at 1.
C13_OrphanSynthesis ==
    ( /\ opc \notin {"none", "input"}
      /\ flux_valid
      /\ Unmasked # {}
      /\ NLeft(orphan_img) = 0 \/ NRight(orphan_img) = 0 )
    => /\ opc = "ok"
       /\ orphan_out # None
       /\ NLeft(orphan_out) >= 1
       /\ NRight(orphan_out) >= 1
       /\ NLeft(orphan_img) = 0 =>
             \A r \in ORows :
                 orphan_out[r][CHOOSE c \in Unmasked : \A d \in Unmasked : c <= d] = -1
       /\ NRight(orphan_img) = 0 =>
             \A r \in ORows :
                 orphan_out[r][CHOOSE c \in Unmasked : \A d \in Unmasked : c >= d] = 1
       /\ (orphan_msk = None /\ NLeft(orphan_img) = 0 /\ NRight(orphan_img) = 0) =>
             orphan_out = [r \in ORows |-> [c \in OCols |->
                              IF c = 0 THEN -1 ELSE IF c = NOCols - 1 THEN 1 ELSE 0]]


\* The image in which trace sd * best alone is left on side sd, as ID sd.
OnlyBest(img, sd, best) ==
    [r \in ORows |-> [c \in OCols |->
        IF img[r][c] = sd * best THEN sd
        ELSE IF img[r][c] * sd > 0 THEN 0
        ELSE img[r][c]]]

\* The traces 1 .. n of side sd whose median significance no other trace of
\* the side exceeds.
MostSignificant(img, sig, sd, n) ==
    { t \in 1 .. n :
        \A u \in 1 .. n :
            Median(sig, PixelsOf(img, sd * u)).v <= Median(sig, PixelsOf(img, sd * t)).v }

\* C14: with exactly one trace on one side and more than one on the other,
\* handle_orphan_edge returns the image in which the over-populated side keeps
\* only its trace of highest median significance, renumbered -1 or 1, every
\* other trace of that side is zero, and the single trace of the other side is
\* as it was.
C14_KeepMostSignificant ==
    opc \notin {"none", "input"} =>
        /\ (NLeft(orphan_img) = 1 /\ NRight(orphan_img) > 1) =>
              /\ opc = "ok"
              /\ \E t \in MostSignificant(orphan_img, orphan_sig, 1, NRight(orphan_img)) :
                    orphan_out = OnlyBest(orphan_img, 1, t)
        /\ (NRight(orphan_img) = 1 /\ NLeft(orphan_img) > 1) =>
              /\ opc = "ok"
              /\ \E t \in MostSignificant(orphan_img, orphan_sig, -1, NLeft(orphan_img)) :
                    orphan_out = OnlyBest(orphan_img, -1, t)

(***************************************************************************)
(* Claims about recenter_moment (checked under SpecMoment).                *)
(***************************************************************************)

\* The part of pixel x inside the window of the given width centred on the
\* guess xc = n / d, in units of 1 / (2 d).
Overlap(x, xc, width) ==
    LET hi == IF (2 * x + 1) * xc[2] < 2 * xc[1] + width * xc[2]
              THEN (2 * x + 1) * xc[2] ELSE 2 * xc[1] + width * xc[2]
        lo == IF (2 * x - 1) * xc[2] > 2 * xc[1] - width * xc[2]
              THEN (2 * x - 1) * xc[2] ELSE 2 * xc[1] - width * xc[2]
    IN  IF hi > lo THEN hi - lo ELSE 0

\* The pixels of the image of the call under the window of guess i.
WindowOf(i) ==
    { x \in DOMAIN m_in.flux[0] : Overlap(x, m_in.xcen[i], m_in.width) > 0 }

\* The row of guess i in the call.
RowOf(i) == YCen(m_in.xcen, m_in.ycen)[i]

\* The pixels of the window of guess i that are masked.
MaskedOf(i) ==
    IF m_in.mask = None THEN {} ELSE { x \in WindowOf(i) : m_in.mask[RowOf(i)][x] }

\* The pixels of the window of guess i that are weighted.
ValidOf(i) ==
    { x \in WindowOf(i) \ MaskedOf(i) : m_in.ivar = None \/ m_in.ivar[RowOf(i)][x] > 0 }

RECURSIVE SumOver(_, _)
SumOver(f, S) ==
    IF S = {} THEN 0 ELSE LET x == CHOOSE v \in S : TRUE IN f[x] + SumOver(f, S \ {x})

\* The weighted flux of the window of guess i, and its first moment.
FluxSum(i) ==
    SumOver([x \in ValidOf(i) |->
                Overlap(x, m_in.xcen[i], m_in.width) * m_in.flux[RowOf(i)][x]], ValidOf(i))

FluxMoment(i) ==
    SumOver([x \in ValidOf(i) |->
                Overlap(x, m_in.xcen[i], m_in.width) * m_in.flux[RowOf(i)][x] * x], ValidOf(i))

\* The rows of the call are rows of the image, one per guess.
RowsValid ==
    /\ Len(YCen(m_in.xcen, m_in.ycen)) = Len(m_in.xcen)
    /\ \A i \in DOMAIN m_in.xcen : RowOf(i) \in DOMAIN m_in.flux

\* C15: recenter_moment does not raise for a window that is fully masked or
\* whose weighted flux sums to zero; for each such guess it returns bad = True,
\* the guess as the centre and fill_error as the error; and the centre of every
\* guess that is not bad is the weighted first moment of its window.
C15_BadWindows ==
    mpc \in {"ok", "ValueError"} /\ RowsValid =>
        /\ mpc = "ok"
        /\ \A i \in DOMAIN m_in.xcen :
              /\ (WindowOf(i) \subseteq MaskedOf(i) \/ FluxSum(i) = 0) =>
                    /\ m_out.bad[i]
                    /\ m_out.mu[i] = m_in.xcen[i]
                    /\ m_out.mue[i] = FillError
              /\ ~ m_out.bad[i] =>
                    /\ FluxSum(i) # 0
                    /\ m_out.mu[i][1] * FluxSum(i) = FluxMoment(i) * m_out.mu[i][2]

\* A call with one guess on a fully masked window inside the image, flagged
\* bad, and another guess that is measured and moved.
C15_Witness ==
    /\ mpc = "ok"
    /\ \E i, j \in DOMAIN m_in.xcen :
          /\ WindowOf(i) # {}
          /\ WindowOf(i) \subseteq MaskedOf(i)
          /\ m_out.bad[i]
          /\ ~ m_out.bad[j]
          /\ m_out.mu[j] # m_in.xcen[j]

\* The guess i of the call lies outside the columns of the image.
ColumnOutside(i) ==
    \/ m_in.xcen[i][1] < 0
    \/ m_in.xcen[i][1] > (Cardinality(DOMAIN m_in.flux[0]) - 1) * m_in.xcen[i][2]

GuessOf(r) ==
    IF r = f_in.start_row THEN f_in.start_cen
    ELSE IF r > f_in.start_row THEN f_out.xc[r - 1]
    ELSE f_out.xc[r + 1]

\* The tolerance of row r.
ToleranceOf(r) == IF r = f_in.start_row THEN f_in.maxshift_start ELSE f_in.maxshift_follow

\* The centres measured in row r from its guess.
MeasuredOf(r) ==
    recenter_moment(f_in.flux, GuessOf(r), f_in.ivar, f_in.mask,
                    [kind |-> "scalar", v |-> <<r>>], f_in.width).mu

\* |a - g| compared with the tolerance t, all three ratios: -1 below, 0 equal,
\* 1 above.
ShiftAgainst(a, g, t) ==
    LET lhs == Abs(a[1] * g[2] - g[1] * a[2]) * t[2]
        rhs == t[1] * a[2] * g[2]
    IN  IF lhs < rhs THEN 0 - 1 ELSE IF lhs = rhs THEN 0 ELSE 1

\* The cells of the call: a row and a trace.
CellsOf == { <<r, i>> : r \in DOMAIN f_in.flux, i \in DOMAIN f_in.start_cen }

FlaggedRows(i) ==
    { r \in DOMAIN f_in.flux : f_out.xm[r][i] \ {"DISCONTINUOUS"} # {} }

\* The rows of trace i beyond a flagged row, moving outward from the start row.
BeyondFlagged(i) ==
    { r \in DOMAIN f_in.flux :
        \E b \in FlaggedRows(i) : (b > f_in.start_row /\ r > b)
                                      \/ (b < f_in.start_row /\ r < b) }

\* The rows of trace i with a zero mask word.
ZeroRows(i) == { r \in DOMAIN f_in.flux : f_out.xm[r][i] = {} }

\* C18: with continuous=True, every row beyond the first bad row met moving
\* outward from the start row is flagged DISCONTINUOUS, above and below the
\* start row alike, so that the rows of a trace with a zero mask word form one
\* run of neighbouring rows with no other row between it and the start row.
C18_ContinuousRun ==
    fpc = "ok" /\ f_in.continuous =>
        \A i \in DOMAIN f_in.start_cen :
            /\ \A r \in BeyondFlagged(i) : "DISCONTINUOUS" \in f_out.xm[r][i]
            /\ \A a, b \in ZeroRows(i) : \A r \in a .. b : r \in ZeroRows(i)
            /\ \A r \in ZeroRows(i) : \A q \in DOMAIN f_in.flux :
                  (r < q /\ q < f_in.start_row) \/ (f_in.start_row < q /\ q < r) =>
                      q \in ZeroRows(i)

(***************************************************************************)
(* Claims about the loop of moment_refine (checked under SpecRefine).      *)
(***************************************************************************)

\* The number of iterations that took trace i.
Attempts(i) == Cardinality({ k \in DOMAIN r_iters : i \in r_iters[k].indx })

\* The work arrays of trace i are saved in the object.
Committed(i) ==
    \A r \in SpecRows : /\ r_w.st.spat_cen[r][i] = r_w.cen[r][i]
                         /\ r_w.st.spat_err[r][i] = r_w.err[r][i]
                         /\ r_w.st.spat_msk[r][i] = r_w.msk[r][i]

\* An iteration that does not raise leaves fewer traces of its side to refine.
Shrinks ==
    rpc \in {"left", "right"} /\ r_iters' # r_iters /\ rpc' # "raised" =>
        /\ ToRefine(r_w', rpc) \subseteq ToRefine(r_w, rpc)
        /\ ToRefine(r_w', rpc) # ToRefine(r_w, rpc)

\* On return every trace of the object has been taken by exactly one iteration
\* and is either saved as good or marked for removal.
AttemptedOnce ==
    rpc = "returned" =>
        \A i \in 1 .. Len(r_in.st.traceid) :
            /\ Attempts(i) = 1
            /\ i \notin r_w.untraced
            /\ (i \in r_w.rmtrace) \/ Committed(i)

\* C19: moment_refine terminates, by returning or by raising; each iteration
\* of its loops strictly shrinks the set of the traces of the side still to
\* refine; and on return every trace that existed on entry has been attempted
\* exactly once and is either committed as good or marked for removal.
C19_Terminates ==
    /\ <>(rpc \in {"returned", "raised"})
    /\ [][Shrinks]_vars
    /\ [](AttemptedOnce)

\* A call that returns after an iteration on each side, with a trace saved as
\* good and a trace marked for removal.
C19_Witness ==
    /\ rpc = "returned"
    /\ \E k, l \in DOMAIN r_iters : r_iters[k].side = "left" /\ r_iters[l].side = "right"
    /\ r_w.rmtrace # {}
    /\ \E i \in 1 .. Len(r_in.st.traceid) : i \notin r_w.rmtrace /\ Committed(i)

(***************************************************************************)
(* A claim about the duplicates of moment_refine (checked under Spec).     *)
(***************************************************************************)

\* The traces i and j of the object are of the same side and, in some row where
\* neither is masked, less than match_tolerance columns apart.
Duplicates(i, j) ==
    /\ i # j
    /\ traceid[i] * traceid[j] > 0
    /\ \E r \in SpecRows : /\ spat_msk[r][i] = {}
                            /\ spat_msk[r][j] = {}
                            /\ Abs(spat_img[r][i] - spat_img[r][j]) < MatchTolerance

\* C20: after a moment_refine with clip=True that returns, no two traces left
\* in the object are of the same side with unmasked rounded columns less than
\* match_tolerance apart in some row, and no trace left is flagged DUPLICATE.
C20_NoDuplicatesLeft ==
    call.name = "moment_refine" /\ call.outcome = "ok" /\ call.arg = TRUE =>
        \A i, j \in 1 .. Len(traceid) :
            /\ ~ Duplicates(i, j)
            /\ \A r \in SpecRows : "DUPLICATE" \notin spat_msk[r][i]

(***************************************************************************)
(* Claims about check_traces within moment_refine (checked under           *)
(* SpecRefine).                                                            *)
(***************************************************************************)

\* The flag of the detector edge that the traces of a side are checked
\* against: the last column for the left side, column 0 for the right side.
PinFlag(side) == IF side = "left" THEN "HITMAX" ELSE "HITMIN"

\* Trace i, checked with its side, is at that edge in the central row and has
\* no other flag there.
Pinned(i, side) ==
    /\ r_w.msk[NSpec \div 2][i] \ {PinFlag(side)} = {}
    /\ IF side = "left" THEN Round(r_w.cen[NSpec \div 2][i]) >= NSpat - 1
       ELSE Round(r_w.cen[NSpec \div 2][i]) <= 0

\* C21: check_traces never raises for a trace pinned at the edge of the
\* detector: the trace gets HITMIN or HITMAX in all its rows and is returned
\* as bad, the call returning normally.
C21_PinnedIsRecorded ==
    rpc # "none" =>
        /\ r_w.status # "NameError"
        /\ r_w.status = "ok" =>
              \A k \in DOMAIN r_iters : \A i \in r_iters[k].indx :
                  Pinned(i, r_iters[k].side) =>
                      /\ \A r \in SpecRows : PinFlag(r_iters[k].side) \in r_w.msk[r][i]
                      /\ i \in r_w.rmtrace

(***************************************************************************)
(* Claims about the calls made on the object (checked under Spec).         *)
(***************************************************************************)

\* C22: a call of a refinement pass or of initial_trace that ends with an
\* error leaves the trace data of the object as they were before the call.
C22_FailedCallIsAtomic ==
    [][(call'.n = call.n + 1 /\ call'.outcome # "ok") =>
          UNCHANGED <<traceid, spat_img, spat_cen, spat_err, spat_msk, spat_fit>>]_vars

\* C23: a call of peak_refine completes, and leaves the traces found by
\* peak_trace in the object with the negative IDs first.
C23_PeakRefineCompletes ==
    call.name = "peak_refine" =>
        /\ call.outcome = "ok"
        /\ \A i, j \in 1 .. Len(traceid) : (traceid[i] < 0 /\ traceid[j] > 0) => i < j

C28_LogRecordsCalls ==
    [][(/\ call'.n = call.n + 1
        /\ call'.name \in {"moment_refine", "fit_refine", "peak_refine"}
        /\ call'.outcome = "ok")
       => log' = Append(log, call'.name)]_vars

(***************************************************************************)
(* Claims about the start row of moment_refine (checked under SpecRefine). *)
(***************************************************************************)

\* The row the next iteration starts from.
StartRow == most_common_trace_row(r_w.st.spat_msk, ToRefine(r_w, rpc))

\* C29: an iteration of moment_refine follows no trace from a cell of the
\* start row whose mask word is not 0; such a trace stays among the traces
\* still to refine.
C29_SeededWhereTraced ==
    [][(/\ Len(r_iters') = Len(r_iters) + 1
        /\ r_w'.status \notin {"IndexError", "ValueError"})
       => \A i \in r_iters'[Len(r_iters')].indx :
             r_w.st.spat_msk[StartRow][i] = {}]_vars

(***************************************************************************)
(* Claims about the image returned by identify_traces (checked under       *)
(* SpecLink).                                                              *)
(***************************************************************************)

\* C30: no row of the image returned by identify_traces holds the same
\* nonzero trace ID in two different pixels.
C30_OnePixelPerRow ==
    lpc = "returned" =>
        \A r \in Rows : \A c1, c2 \in Cols :
            (trace_id_img[r][c1] # 0 /\ trace_id_img[r][c1] = trace_id_img[r][c2])
                => c1 = c2

(***************************************************************************)
(* Claims about the construction of the object (checked under              *)
(* SpecConstruct).                                                         *)
(***************************************************************************)

\* C24: a construction with both a trace image and load=True, the master
\* file being there, raises nothing and gives the object loaded from the file;
\* the trace image is ignored.
C24_LoadTakesPrecedence ==
    (cpc = "returned" /\ c_in.trace_img # None /\ c_in.load /\ c_in.hdu # None) =>
        /\ c_out.status = "ok"
        /\ c_out.st = Reinit(c_in.hdu)
        /\ c_out.log = c_in.hdu.log
        /\ c_out.file = c_in.hdu

(***************************************************************************)
(* Claims about the collapse of peak_trace (checked under SpecPeak).       *)
(***************************************************************************)

\* C26: for smash_range = (lo, hi) with 0 <= lo < hi <= 1 the rows collapsed
\* run from floor(lo*nspec) up to floor(hi*nspec), and there is at least one
\* of them when hi*nspec - lo*nspec >= 1.
C26_SmashedRows ==
    (ppc = "collapsed" /\ p_in.smash_range # None) =>
        LET lo == p_in.smash_range[1]
            hi == p_in.smash_range[2]
        IN  /\ p_out.start = (lo * p_in.nspec) \div SmashDen
            /\ p_out.end = (hi * p_in.nspec) \div SmashDen
            /\ (hi * p_in.nspec - lo * p_in.nspec >= SmashDen) => p_out.start < p_out.end

(***************************************************************************)
(* Claims about the Sobel images of the object (checked under SpecSobel).  *)
(***************************************************************************)

\* C27: an image prepared for a side is the one prepare_sobel_for_trace makes
\* of the current sobel_sig for that side, each side has been computed at most
\* once since sobel_sig was set, and a step that sets sobel_sig leaves both
\* prepared images None.
C27_CacheNeverStale ==
    /\ [](/\ sobel_sig_left # None =>
                sobel_sig_left = prepare_sobel_for_trace(sobel_sig, "left")
          /\ sobel_sig_righ # None =>
                sobel_sig_righ = prepare_sobel_for_trace(sobel_sig, "right")
          /\ computed.left <= 1
          /\ computed.right <= 1)
    /\ [][(sobel_sig' # sobel_sig \/ computed'.dropped # computed.dropped) =>
             (sobel_sig_left' = None /\ sobel_sig_righ' = None)]_vars

\* C27 witness: both sides are prepared again, for another image than the one
\* their discarded images were made of.
C27_Witness ==
    /\ computed.dropped
    /\ sobel_sig_left # None
    /\ sobel_sig_righ # None
    /\ sobel_hdu # None
    /\ sobel_hdu # sobel_sig

====
